---- MODULE Spec2Model ----
(***************************************************************************)
(* Model of the quantitative core of the repository:                       *)
(*   backend/app/processing/backtester.py       (Backtester)               *)
(*   backend/app/processing/risk_management.py  (AdvancedRiskManager)      *)
(* Python floats are modelled as exact rationals [n, d] in lowest terms.   *)
(***************************************************************************)
EXTENDS Integers, Sequences, FiniteSets, TLC

VARIABLES
    pc,     \* position: "idle", "walk", "sim_done", "bt_loop", "bt_done", "raised",
            \*           "size_done", "risk_done", "mc", "mc_shared", "broker_done"
    args,   \* arguments of the running call (monte_carlo_simulation keeps its own in mc)
    sim,    \* locals of the running simulate_trade call
    out,    \* value returned by the last call that returned
    batch,  \* the signals argument of the running backtest_signals call
    bt,     \* locals of the running backtest_signals call
    risk_manager,  \* attributes of the AdvancedRiskManager instance
    backtester,    \* attributes of the Backtester instance
    mc,     \* per caller: arguments and locals of its monte_carlo_simulation call
    rng,    \* state of the process-wide numpy generator behind np.random.normal
    runs,   \* results of the monte_carlo_simulation calls returned so far, in order
    broker_interface  \* attributes of the global AdvancedBrokerInterface instance

objects == <<risk_manager, backtester, broker_interface>>
riskVars == <<mc, rng, runs>>
vars == <<pc, args, sim, out, batch, bt, risk_manager, backtester, mc, rng, runs,
          broker_interface>>

-----------------------------------------------------------------------------
(* Bounds of the model *)

MaxBars == 3       \* longest price_data handed to simulate_trade
MaxBatch == 2      \* longest batch handed to backtest_signals
MaxSims == 2       \* largest num_simulations handed to monte_carlo_simulation
MaxHorizon == 2    \* largest time_horizon handed to monte_carlo_simulation
MaxSeries == 4     \* longest series of any values handed to check_drawdown
LongSeriesExtra == 3   \* how much longer the series over two values may be
MaxClock == 2      \* how many values the millisecond clock of the broker may show
MaxOrders == 2     \* how many orders the broker may execute

(* None is Python's None (dict.get on a missing key); no price of the model is negative *)
None == -1

-----------------------------------------------------------------------------
(* Exact rational arithmetic standing for Python float arithmetic *)

Abs(x) == IF x < 0 THEN -x ELSE x

RECURSIVE GCD(_, _)
GCD(a, b) == IF b = 0 THEN a ELSE GCD(b, a % b)

Rat(n, d) ==
    LET s == IF d < 0 THEN -1 ELSE 1
        g == GCD(Abs(n), Abs(d))
    IN [n |-> (s * n) \div g, d |-> (s * d) \div g]

Zero == [n |-> 0, d |-> 1]
RatNeg(a) == [n |-> -a.n, d |-> a.d]
(* sums and comparisons go through the least common denominator *)
RatAdd(a, b) ==
    LET g == GCD(a.d, b.d)
    IN Rat(a.n * (b.d \div g) + b.n * (a.d \div g), (a.d \div g) * b.d)
RatDivInt(a, k) == Rat(a.n, a.d * k)
RatLE(a, b) == LET g == GCD(a.d, b.d) IN a.n * (b.d \div g) <= b.n * (a.d \div g)
RatLT(a, b) == LET g == GCD(a.d, b.d) IN a.n * (b.d \div g) < b.n * (a.d \div g)
RatMin(a, b) == IF RatLE(a, b) THEN a ELSE b
Max(a, b) == IF a >= b THEN a ELSE b
Min(a, b) == IF a <= b THEN a ELSE b

SeqsUpTo(S, n) == UNION {[1..k -> S] : k \in 0..n}

-----------------------------------------------------------------------------
(* Input alphabets *)

(* prices of the rows, and the levels a trade's stop and target may take:      *)
(* below, between and above the row prices                                     *)
BarPrices == {2, 3, 4}
Levels == {1, 2, 3, 4, 5}
Directions == {"long", "short", "neutral"}

(* one row of price_data: High, Low, Close with Low <= High; the rows of the    *)
(* model close at their low (simulate_trade reads Close and never uses it)     *)
Rows ==
    {[High |-> t[1], Low |-> t[2], Close |-> t[2]] :
        t \in {x \in BarPrices \X BarPrices : x[2] <= x[1]}}

-----------------------------------------------------------------------------
(* Backtester.simulate_trade *)

(* locals before the loop, lines 115-118 *)
SimLocals(entry_price) ==
    [max_drawdown |-> Zero,
     peak_price   |-> entry_price,
     exit_price   |-> entry_price,
     exit_reason  |-> "time_horizon_end",
     status       |-> "loop"]

(* Variants of the loop body, each with one plausible slip, used to show that  *)
(* the properties below depend on the code as written                          *)

(* take-profit checked before stop-loss *)
LongBarTargetFirst(w, row, a) ==
    IF row.High >= a.take_profit
    THEN [w EXCEPT !.exit_price = a.take_profit, !.exit_reason = "take_profit",
                   !.status = "break"]
    ELSE IF row.Low <= a.stop_loss
    THEN [w EXCEPT !.exit_price = a.stop_loss, !.exit_reason = "stop_loss",
                   !.status = "break"]
    ELSE LET peak == IF w.peak_price >= row.High THEN w.peak_price ELSE row.High
             drawdown == Rat(peak - row.Low, peak)
             md == RatNeg(drawdown)
         IN [w EXCEPT !.peak_price = peak,
                      !.max_drawdown = IF RatLE(@, md) THEN @ ELSE md]

(* a breached stop filled at the row's low instead of at the stop level *)
LongBarFillAtLow(w, row, a) ==
    IF row.Low <= a.stop_loss
    THEN [w EXCEPT !.exit_price = row.Low, !.exit_reason = "stop_loss",
                   !.status = "break"]
    ELSE IF row.High >= a.take_profit
    THEN [w EXCEPT !.exit_price = a.take_profit, !.exit_reason = "take_profit",
                   !.status = "break"]
    ELSE LET peak == IF w.peak_price >= row.High THEN w.peak_price ELSE row.High
             drawdown == Rat(peak - row.Low, peak)
             md == RatNeg(drawdown)
         IN [w EXCEPT !.peak_price = peak,
                      !.max_drawdown = IF RatLE(@, md) THEN @ ELSE md]

(* the take-profit exit recorded without leaving the loop *)
LongBarNoBreak(w, row, a) ==
    IF row.Low <= a.stop_loss
    THEN [w EXCEPT !.exit_price = a.stop_loss, !.exit_reason = "stop_loss",
                   !.status = "break"]
    ELSE IF row.High >= a.take_profit
    THEN [w EXCEPT !.exit_price = a.take_profit, !.exit_reason = "take_profit"]
    ELSE LET peak == IF w.peak_price >= row.High THEN w.peak_price ELSE row.High
             drawdown == Rat(peak - row.Low, peak)
             md == RatNeg(drawdown)
         IN [w EXCEPT !.peak_price = peak,
                      !.max_drawdown = IF RatLE(@, md) THEN @ ELSE md]

(* the drawdown of the current row kept instead of the running minimum *)
LongBarLastDrawdown(w, row, a) ==
    IF row.Low <= a.stop_loss
    THEN [w EXCEPT !.exit_price = a.stop_loss, !.exit_reason = "stop_loss",
                   !.status = "break"]
    ELSE IF row.High >= a.take_profit
    THEN [w EXCEPT !.exit_price = a.take_profit, !.exit_reason = "take_profit",
                   !.status = "break"]
    ELSE LET peak == IF w.peak_price >= row.High THEN w.peak_price ELSE row.High
             drawdown == Rat(peak - row.Low, peak)
         IN [w EXCEPT !.peak_price = peak,
                      !.max_drawdown = RatNeg(drawdown)]

(* one iteration of the loop over price_data.iterrows(), lines 120-152;        *)
(* status becomes "break" on an exit and "raise" when a comparison with None   *)
(* raises TypeError                                                            *)
LongBar(w, row, a) ==
    IF a.stop_loss = None THEN [w EXCEPT !.status = "raise"]
    ELSE IF row.Low <= a.stop_loss
    THEN [w EXCEPT !.exit_price = a.stop_loss, !.exit_reason = "stop_loss",
                   !.status = "break"]
    ELSE IF a.take_profit = None THEN [w EXCEPT !.status = "raise"]
    ELSE IF row.High >= a.take_profit
    THEN [w EXCEPT !.exit_price = a.take_profit, !.exit_reason = "take_profit",
                   !.status = "break"]
    ELSE LET peak == Max(w.peak_price, row.High)
             drawdown == Rat(peak - row.Low, peak)
         IN [w EXCEPT !.peak_price = peak,
                      !.max_drawdown = RatMin(w.max_drawdown, RatNeg(drawdown))]

ShortBar(w, row, a) ==
    IF a.stop_loss = None THEN [w EXCEPT !.status = "raise"]
    ELSE IF row.High >= a.stop_loss
    THEN [w EXCEPT !.exit_price = a.stop_loss, !.exit_reason = "stop_loss",
                   !.status = "break"]
    ELSE IF a.take_profit = None THEN [w EXCEPT !.status = "raise"]
    ELSE IF row.Low <= a.take_profit
    THEN [w EXCEPT !.exit_price = a.take_profit, !.exit_reason = "take_profit",
                   !.status = "break"]
    ELSE LET peak == Min(w.peak_price, row.Low)
             drawdown == Rat(row.Low - peak, peak)
         IN [w EXCEPT !.peak_price = peak,
                      !.max_drawdown = RatMin(w.max_drawdown, RatNeg(drawdown))]

(* a direction that is neither long nor short examines the row and does nothing *)
BarStepKnownDirections(w, row, a) ==
    IF a.direction = "long" THEN LongBar(w, row, a)
    ELSE IF a.direction = "short" THEN ShortBar(w, row, a)
    ELSE w

(* a row that triggers nothing moves exit_price to its close *)
BarStepCloseFallback(w, row, a) ==
    LET n == IF a.direction = "long" THEN LongBar(w, row, a) ELSE ShortBar(w, row, a)
    IN IF n.status = "loop" THEN [n EXCEPT !.exit_price = row.Close] ELSE n

BarStep(w, row, a) ==
    IF a.direction = "long" THEN LongBar(w, row, a) ELSE ShortBar(w, row, a)

(* the short return computed like the long one *)
ReturnPctNoInvert(w, a) ==
    Rat((w.exit_price - a.entry_price) * 100, a.entry_price)

(* lines 154-157 *)
ReturnPct(w, a) ==
    IF a.direction = "long"
    THEN Rat((w.exit_price - a.entry_price) * 100, a.entry_price)
    ELSE Rat((a.entry_price - w.exit_price) * 100, a.entry_price)

(* the returned dict, lines 159-169 *)
TradeResult(w, a) ==
    [exit_price        |-> w.exit_price,
     exit_reason       |-> w.exit_reason,
     return_pct        |-> ReturnPct(w, a),
     max_drawdown      |-> w.max_drawdown,
     direction         |-> a.direction,
     entry_price       |-> a.entry_price,
     stop_loss         |-> a.stop_loss,
     take_profit       |-> a.take_profit,
     trade_length_days |-> Len(a.price_data)]

NoArgs == [price_data |-> <<>>, direction |-> "long", entry_price |-> 0,
           stop_loss |-> 0, take_profit |-> 0]
NoSim == [max_drawdown |-> Zero, peak_price |-> 0, exit_price |-> 0,
          exit_reason |-> "none", status |-> "none", idx |-> 0]
NoOut == [kind |-> "none"]
NoBt == [kind |-> "none"]

(* a caller invokes simulate_trade directly, with prices for every argument *)
SimulateTradeCall ==
    /\ pc = "idle"
    /\ \E pd \in SeqsUpTo(Rows, MaxBars), dir \in Directions,
          e \in BarPrices, sl \in Levels, tp \in Levels :
          /\ args' = [price_data |-> pd, direction |-> dir, entry_price |-> e,
                      stop_loss |-> sl, take_profit |-> tp]
          /\ sim' = SimLocals(e) @@ [idx |-> 0]
    /\ pc' = "walk"
    /\ UNCHANGED <<objects, riskVars, out, batch, bt>>

(* the loop body on the next row *)
SimBar ==
    /\ pc = "walk"
    /\ sim.status = "loop"
    /\ sim.idx < Len(args.price_data)
    /\ LET w == BarStep(sim, args.price_data[sim.idx + 1], args)
       IN sim' = [w EXCEPT !.idx = sim.idx + 1]
    /\ UNCHANGED <<objects, riskVars, pc, args, out, batch, bt>>

(* after the loop (break or exhaustion): compute return_pct and return *)
SimReturn ==
    /\ pc = "walk"
    /\ sim.status = "break" \/ (sim.status = "loop" /\ sim.idx = Len(args.price_data))
    /\ out' = [kind |-> "trade", v |-> TradeResult(sim, args)]
    /\ pc' = "sim_done"
    /\ UNCHANGED <<objects, riskVars, args, sim, batch, bt>>

(* the caller takes the result; the engine is ready for the next call *)
SimFinish ==
    /\ pc = "sim_done"
    /\ pc' = "idle"
    /\ args' = NoArgs /\ sim' = NoSim /\ out' = NoOut
    /\ UNCHANGED <<objects, riskVars, batch, bt>>

-----------------------------------------------------------------------------
(* Backtester.backtest_signals *)

(* dict.get on a missing string-valued key; Python's `not x` *)
NoneStr == "None"
FalsyStr(x) == x = NoneStr \/ x = ""
FalsyNum(x) == x = None \/ x = 0

(* simulate_trade run to completion, as backtest_signals calls it (line 82):   *)
(* the loop of lines 120-152 over the rows from position i                     *)
RECURSIVE Walk(_, _, _)
Walk(w, a, i) ==
    IF w.status # "loop" \/ i > Len(a.price_data) THEN w
    ELSE Walk(BarStep(w, a.price_data[i], a), a, i + 1)

SimulateTrade(a) ==
    LET w == Walk(SimLocals(a.entry_price), a, 1)
    IN IF w.status = "raise" THEN [raised |-> TRUE]
       ELSE [raised |-> FALSE, v |-> TradeResult(w, a)]

(* a signal of the batch together with what the outside world answers for it:  *)
(* fetched = fetch_historical_prices returned data (not None) for the asset,   *)
(* window = the rows of that data within [entry_date, entry_date+time_horizon] *)
Signal(asset, entry_date, direction, entry_price, stop_loss, take_profit, fetched, window) ==
    [asset |-> asset, entry_date |-> entry_date, direction |-> direction,
     entry_price |-> entry_price, stop_loss |-> stop_loss,
     take_profit |-> take_profit, fetched |-> fetched, window |-> window]

(* line 60 *)
Incomplete(s) ==
    \/ FalsyStr(s.asset)
    \/ FalsyStr(s.entry_date)
    \/ FalsyStr(s.direction)
    \/ FalsyNum(s.entry_price)

(* lines 64-79: no data, an exception while slicing, or an empty slice *)
NoWindow(s) ==
    \/ ~s.fetched
    \/ s.entry_date = "bad"
    \/ s.window = <<>>

Skipped(s) == Incomplete(s) \/ NoWindow(s)

(* locals before the loop, lines 45-49 *)
BtLocals ==
    [results |-> <<>>, total_return |-> Zero, wins |-> 0, losses |-> 0,
     max_drawdown |-> Zero, status |-> "loop"]

(* lines 83-91 *)
Accumulate(b, t) ==
    [b EXCEPT !.results = Append(b.results, t),
              !.total_return = RatAdd(b.total_return, t.return_pct),
              !.wins = IF RatLT(Zero, t.return_pct) THEN b.wins + 1 ELSE b.wins,
              !.losses = IF RatLT(Zero, t.return_pct) THEN b.losses ELSE b.losses + 1,
              !.max_drawdown = RatMin(b.max_drawdown, t.max_drawdown)]

(* a skipped signal counted as a losing trade *)
SkipSignalCounted(b, s) == [b EXCEPT !.losses = b.losses + 1]

(* the skipped signal: `continue`, lines 60-79 *)
SkipSignal(b, s) == b

(* one iteration of the loop over signals, lines 51-91 *)
SignalStep(b, s) ==
    IF Skipped(s) THEN SkipSignal(b, s)
    ELSE LET r == SimulateTrade([price_data |-> s.window, direction |-> s.direction,
                                 entry_price |-> s.entry_price,
                                 stop_loss |-> s.stop_loss,
                                 take_profit |-> s.take_profit])
         IN IF r.raised THEN [b EXCEPT !.status = "raise"]
            ELSE Accumulate(b, r.v)

(* the report without the guards against zero trades: 0/0 stays 0/0 *)
PerformanceUnguarded(b) ==
    LET total_trades == b.wins + b.losses
    IN [total_trades       |-> total_trades,
        wins               |-> b.wins,
        losses             |-> b.losses,
        win_rate           |-> [n |-> b.wins * 100, d |-> total_trades],
        average_return_pct |-> [n |-> b.total_return.n,
                                d |-> b.total_return.d * total_trades],
        max_drawdown_pct   |-> b.max_drawdown,
        trade_details      |-> b.results]

(* lines 93-107 *)
Performance(b) ==
    LET total_trades == b.wins + b.losses
    IN [total_trades       |-> total_trades,
        wins               |-> b.wins,
        losses             |-> b.losses,
        win_rate           |-> IF total_trades > 0
                               THEN Rat(b.wins * 100, total_trades) ELSE Zero,
        average_return_pct |-> IF total_trades > 0
                               THEN RatDivInt(b.total_return, total_trades) ELSE Zero,
        max_drawdown_pct   |-> b.max_drawdown,
        trade_details      |-> b.results]

(* the signals of the model: well-formed trades over one-row windows, and one   *)
(* signal per defect of a well-formed one                                      *)
BtDirections == {"long", "short"}
BtSetups == {<<3, 1, 4>>, <<3, 2, 4>>, <<3, 4, 2>>}   \* entry_price, stop_loss, take_profit
BtWindows == {<<r>> : r \in Rows}

GoodSignals ==
    {Signal("X", "2024-01-01", d, p[1], p[2], p[3], TRUE, w) :
        d \in BtDirections, p \in BtSetups, w \in BtWindows}

DefectsOf(g) ==
    {[g EXCEPT !.asset = NoneStr],
     [g EXCEPT !.entry_date = NoneStr],
     [g EXCEPT !.entry_date = "bad"],
     [g EXCEPT !.direction = NoneStr],
     [g EXCEPT !.entry_price = None],
     [g EXCEPT !.entry_price = 0],
     [g EXCEPT !.stop_loss = None],
     [g EXCEPT !.take_profit = None],
     [g EXCEPT !.fetched = FALSE],
     [g EXCEPT !.window = <<>>]}

DefectBases ==
    {Signal("X", "2024-01-01", "long", 3, 2, 4, TRUE,
            <<[High |-> h, Low |-> h, Close |-> h]>>) : h \in {2, 3}}

Signals == GoodSignals \cup UNION {DefectsOf(g) : g \in DefectBases}

(* a caller invokes backtest_signals *)
BacktestCall ==
    /\ pc = "idle"
    /\ \E sigs \in SeqsUpTo(Signals, MaxBatch) : batch' = sigs
    /\ bt' = BtLocals @@ [i |-> 0]
    /\ pc' = "bt_loop"
    /\ UNCHANGED <<objects, riskVars, args, sim, out>>

(* the loop body on the next signal; an exception leaves the function *)
BacktestSignal ==
    /\ pc = "bt_loop"
    /\ bt.i < Len(batch)
    /\ LET b == SignalStep(bt, batch[bt.i + 1])
       IN /\ bt' = [b EXCEPT !.i = bt.i + 1]
          /\ pc' = IF b.status = "raise" THEN "raised" ELSE pc
    /\ UNCHANGED <<objects, riskVars, args, sim, out, batch>>

(* after the loop: build and return the performance report *)
BacktestReturn ==
    /\ pc = "bt_loop"
    /\ bt.i = Len(batch)
    /\ out' = [kind |-> "report", v |-> Performance(bt)]
    /\ pc' = "bt_done"
    /\ UNCHANGED <<objects, riskVars, args, sim, batch, bt>>

(* the caller takes the report, or the exception, and the engine is idle again *)
BacktestFinish ==
    /\ pc \in {"bt_done", "raised"}
    /\ pc' = "idle"
    /\ batch' = <<>> /\ bt' = NoBt /\ out' = NoOut
    /\ UNCHANGED <<objects, riskVars, args, sim>>

-----------------------------------------------------------------------------
(* AdvancedRiskManager: the values of a signal record *)

(* a float is a rational; NoneVal is a key that holds None and Missing a key   *)
(* the record does not have                                                    *)
NoneVal == [n |-> 0, d |-> 0]
Missing == [n |-> 1, d |-> 0]
Num(k) == [n |-> k, d |-> 1]
Get(x, default) == IF x = Missing THEN default ELSE x
Falsy(x) == x = NoneVal \/ x.n = 0

RatMul(a, b) ==
    LET g == GCD(Abs(a.n), b.d)
        h == GCD(Abs(b.n), a.d)
    IN IF a.n = 0 \/ b.n = 0 THEN Zero
       ELSE [n |-> (a.n \div g) * (b.n \div h), d |-> (a.d \div h) * (b.d \div g)]
RatDiv(a, b) == RatMul(a, Rat(b.d, b.n))
RatSub(a, b) == RatAdd(a, RatNeg(b))
RatAbs(a) == [n |-> Abs(a.n), d |-> a.d]
RatMax(a, b) == IF RatLE(b, a) THEN a ELSE b

(* int(x): truncation towards zero *)
Trunc(a) == IF a.n >= 0 THEN a.n \div a.d ELSE -((-a.n) \div a.d)

RECURSIVE Pow10(_)
Pow10(k) == IF k = 0 THEN 1 ELSE 10 * Pow10(k - 1)

(* round(x, k): to k decimals, ties to the even neighbour *)
Round(a, k) ==
    LET whole == a.n \div a.d
        s == (a.n - whole * a.d) * Pow10(k)
        q == whole * Pow10(k) + (s \div a.d)
        r == s % a.d
        up == 2 * r > a.d \/ (2 * r = a.d /\ q % 2 = 1)
    IN Rat(IF up THEN q + 1 ELSE q, Pow10(k))

(* the instance every call site constructs: AdvancedRiskManager() *)
AdvancedRiskManager ==
    [portfolio_value |-> Num(100000), max_portfolio_risk |-> Rat(2, 100),
     positions |-> <<>>, correlation_matrix |-> NoneStr, sector_exposure |-> <<>>]

(* the instance the backtest endpoint constructs: Backtester() *)
Backtester == [start_date |-> "1923-01-01", end_date |-> "today"]

SelfAfterTracking(self) == [self EXCEPT !.positions = <<"position">>]

(* the instance after a public operation: outside __init__ no method of the    *)
(* class assigns an attribute of self                                          *)
SelfAfter(self) == self

-----------------------------------------------------------------------------
(* AdvancedRiskManager.calculate_position_size and its helpers *)

KellyClampMissing(kelly) == kelly

(* max(0, ...) around the Kelly size *)
KellyClamp(kelly) == RatMax(Zero, kelly)

(* _calculate_kelly_criterion: raised is an exception leaving the helper *)
KellyCriterion(self, confidence_score, risk_per_share, entry_price) ==
    LET win_probability == RatDiv(confidence_score, Num(100))
        average_win == RatMul(risk_per_share, Num(2))
        average_loss == risk_per_share
        b == RatDiv(average_win, average_loss)
        p == win_probability
        q == RatSub(Num(1), win_probability)
        kelly_fraction == RatDiv(RatSub(RatMul(b, p), q), b)
        kelly_size == KellyClamp(RatDiv(RatMul(RatMul(kelly_fraction, Rat(25, 100)),
                                               self.portfolio_value), entry_price))
        failed == confidence_score = NoneVal \/ average_loss.n = 0 \/ entry_price.n = 0
    IN IF ~failed THEN [raised |-> FALSE, v |-> kelly_size]
       ELSE IF entry_price.n = 0 THEN [raised |-> TRUE]
       ELSE [raised |-> FALSE,
             v |-> RatDiv(RatMul(self.portfolio_value, Rat(1, 100)), entry_price)]

risk_multipliers == [low |-> Rat(3, 100), medium |-> Rat(2, 100), high |-> Rat(1, 100)]

(* _calculate_fixed_fractional *)
FixedFractional(self, risk_level) ==
    LET risk_fraction == IF risk_level \in DOMAIN risk_multipliers
                         THEN risk_multipliers[risk_level] ELSE Rat(2, 100)
    IN RatDiv(RatMul(self.portfolio_value, risk_fraction), Num(100))

(* _calculate_volatility_adjusted_size: its own except clause returns a size *)
VolatilityAdjustedSize(self, signal_data) ==
    LET atr == Get(signal_data.atr, Zero)
        entry_price == Get(signal_data.entry_price, Num(100))
        volatility_pct == RatMul(RatDiv(atr, entry_price), Num(100))
        volatility_adjustment ==
            IF RatLT(Num(5), volatility_pct) THEN Rat(1, 2)
            ELSE IF RatLT(Num(3), volatility_pct) THEN Rat(3, 4)
            ELSE Num(1)
        base_size == RatDiv(RatMul(self.portfolio_value, Rat(2, 100)), entry_price)
    IN IF ~Falsy(atr) /\ ~Falsy(entry_price) THEN RatMul(base_size, volatility_adjustment)
       ELSE IF Falsy(entry_price)
            THEN RatDiv(RatMul(self.portfolio_value, Rat(2, 100)), Num(100))
            ELSE base_size

PortfolioHeatAdjustmentInverted(self, portfolio_data) ==
    LET current_risk == Get(portfolio_data.total_risk_exposure, Zero)
        max_portfolio_heat == RatMul(self.portfolio_value, Rat(6, 100))
    IN IF portfolio_data.kind # "dict" THEN Num(1)
       ELSE IF current_risk = NoneVal THEN Num(1)
       ELSE IF RatLE(max_portfolio_heat, current_risk) THEN Rat(1, 2)
       ELSE IF RatLE(RatMul(max_portfolio_heat, Rat(8, 10)), current_risk) THEN Rat(1, 10)
       ELSE Num(1)

(* _calculate_portfolio_heat_adjustment: None and the empty dict are falsy, a  *)
(* comparison with None is caught by the except clause                         *)
PortfolioHeatAdjustment(self, portfolio_data) ==
    LET current_risk == Get(portfolio_data.total_risk_exposure, Zero)
        max_portfolio_heat == RatMul(self.portfolio_value, Rat(6, 100))
    IN IF portfolio_data.kind # "dict" THEN Num(1)
       ELSE IF current_risk = NoneVal THEN Num(1)
       ELSE IF RatLE(max_portfolio_heat, current_risk) THEN Rat(1, 10)
       ELSE IF RatLE(RatMul(max_portfolio_heat, Rat(8, 10)), current_risk) THEN Rat(1, 2)
       ELSE Num(1)

FinalSharesNoRiskCap(adjusted_size, max_shares, risk_based_shares) ==
    RatMin(adjusted_size, max_shares)

(* final_shares = min(adjusted_size, max_shares, risk_based_shares) *)
FinalShares(adjusted_size, max_shares, risk_based_shares) ==
    RatMin(adjusted_size, RatMin(max_shares, risk_based_shares))

SharesUnfloored(final_shares) == Trunc(final_shares)

(* "shares": max(1, int(final_shares)) *)
Shares(final_shares) == Max(1, Trunc(final_shares))

(* calculate_position_size: raised is an exception leaving the function *)
CalculatePositionSize(self, signal_data, portfolio_data) ==
    LET confidence_score == Get(signal_data.confidence_score, Num(50))
        risk_level == signal_data.risk_level
        entry_price == Get(signal_data.entry_price, Num(100))
        stop_loss == Get(signal_data.stop_loss, RatMul(entry_price, Rat(95, 100)))
        risk_per_share == RatAbs(RatSub(entry_price, stop_loss))
        kelly == KellyCriterion(self, confidence_score, risk_per_share, entry_price)
        kelly_size == kelly.v
        fixed_fractional_size == FixedFractional(self, risk_level)
        volatility_adjusted_size == VolatilityAdjustedSize(self, signal_data)
        portfolio_heat_adjustment == PortfolioHeatAdjustment(self, portfolio_data)
        base_size == RatDiv(RatAdd(RatAdd(kelly_size, fixed_fractional_size),
                                   volatility_adjusted_size), Num(3))
        adjusted_size == RatMul(base_size, portfolio_heat_adjustment)
        max_position_value == RatMul(self.portfolio_value, Rat(1, 10))
        max_shares == RatDiv(max_position_value, entry_price)
        risk_based_shares ==
            RatDiv(RatMul(self.portfolio_value, self.max_portfolio_risk), risk_per_share)
        final_shares == FinalShares(adjusted_size, max_shares, risk_based_shares)
        position_value == RatMul(final_shares, entry_price)
        portfolio_percentage ==
            RatMul(RatDiv(position_value, self.portfolio_value), Num(100))
        \* line 33 evaluates entry_price * 0.95 even when stop_loss is present
        failed == \/ entry_price = NoneVal
                  \/ stop_loss = NoneVal
                  \/ kelly.raised
                  \/ risk_per_share.n = 0
    IN IF ~failed
       THEN [raised |-> FALSE,
             v |-> [shares |-> Shares(final_shares),
                    position_value |-> Round(position_value, 2),
                    portfolio_percentage |-> Round(portfolio_percentage, 2),
                    risk_per_share |-> Round(risk_per_share, 2),
                    kelly_size |-> Round(kelly_size, 2),
                    fixed_fractional_size |-> Round(fixed_fractional_size, 2),
                    volatility_adjusted_size |-> Round(volatility_adjusted_size, 2),
                    portfolio_heat_adjustment |-> Round(portfolio_heat_adjustment, 3),
                    max_risk_amount |-> Round(RatMul(final_shares, risk_per_share), 2),
                    error |-> FALSE]]
       \* the except clause multiplies entry_price again
       ELSE IF entry_price = NoneVal THEN [raised |-> TRUE]
       ELSE [raised |-> FALSE,
             v |-> [shares |-> 1,
                    position_value |-> entry_price,
                    portfolio_percentage |-> Num(1),
                    risk_per_share |-> RatMul(entry_price, Rat(5, 100)),
                    max_risk_amount |-> RatMul(entry_price, Rat(5, 100)),
                    error |-> TRUE]]

(* the signal records and portfolio contexts handed to calculate_position_size *)
Confidences == {NoneVal, Num(0), Rat(100, 3), Num(50), Num(100)}
RiskLevels == {"low", "high", NoneStr}
EntryPrices == {NoneVal, Num(0), Num(100), Num(20000)}
StopLosses == {NoneVal, Missing, Num(0), Num(95), Num(100)}
Atrs == {Missing, Num(4), Num(6)}
SizeSignals ==
    [confidence_score : Confidences, risk_level : RiskLevels,
     entry_price : EntryPrices, stop_loss : StopLosses, atr : Atrs]
Exposures == {NoneVal, Missing, Num(4799), Num(4800), Num(5999), Num(6000), Num(7000)}
Portfolios ==
    {[kind |-> k, total_risk_exposure |-> Missing] : k \in {"None", "empty"}}
    \cup {[kind |-> "dict", total_risk_exposure |-> x] : x \in Exposures}

(* a caller invokes calculate_position_size; the call runs to its return or to *)
(* the exception that leaves it                                                *)
NoMc == <<>>

PositionSizeCall ==
    /\ pc = "idle"
    /\ \E s \in SizeSignals, p \in Portfolios :
          LET r == CalculatePositionSize(risk_manager, s, p)
          IN /\ args' = [signal_data |-> s, portfolio_data |-> p]
             /\ risk_manager' = SelfAfter(risk_manager)
             /\ out' = IF r.raised THEN [kind |-> "size", raised |-> TRUE]
                       ELSE [kind |-> "size", raised |-> FALSE, v |-> r.v]
    /\ pc' = "size_done"
    /\ UNCHANGED <<sim, batch, bt, backtester, broker_interface, riskVars>>

(* the caller takes the result or the exception *)
PositionSizeFinish ==
    /\ pc = "size_done"
    /\ pc' = "idle"
    /\ args' = NoArgs /\ out' = NoOut
    /\ UNCHANGED <<sim, batch, bt, objects, riskVars>>

-----------------------------------------------------------------------------
(* AdvancedRiskManager.monte_carlo_simulation *)

(* np.random.normal draws from the generator of the process: a fixed stream of *)
(* draws in which a seed fixes the position and every draw advances it         *)
ShockStream == <<0, 0, 2, 2, -2, -2, 0, -2, 2>>
Seeds == 1..Len(ShockStream)
NormalNotReseeded(g) ==
    [shock |-> Num(ShockStream[((g + Len(runs) - 1) % Len(ShockStream)) + 1]),
     rng |-> (g % Len(ShockStream)) + 1]

Normal(g) == [shock |-> Num(ShockStream[g]), rng |-> (g % Len(ShockStream)) + 1]

(* lines 182-196: the locals before the simulation loop; status "error" is an  *)
(* exception on the way, caught by the except clause of the function           *)
McLocals(signal_data, num_simulations, time_horizon, seed) ==
    LET entry_price == Get(signal_data.entry_price, Num(100))
        stop_loss == Get(signal_data.stop_loss, RatMul(entry_price, Rat(95, 100)))
        take_profit == Get(signal_data.take_profit, RatMul(entry_price, Rat(11, 10)))
        confidence_score == Get(signal_data.confidence_score, Num(50))
        atr == Get(signal_data.atr, RatMul(entry_price, Rat(2, 100)))
        failed == Falsy(entry_price) \/ atr = NoneVal \/ confidence_score = NoneVal
        frame == [signal_data |-> signal_data, num_simulations |-> num_simulations,
                  time_horizon |-> time_horizon, seed |-> seed,
                  outcomes |-> <<>>, price_paths |-> <<>>]
    IN IF failed
       THEN frame @@ [status |-> "error", prices |-> <<>>, entry_price |-> entry_price,
                      stop_loss |-> NoneVal, take_profit |-> NoneVal,
                      daily_volatility |-> NoneVal, win_probability |-> NoneVal]
       ELSE frame @@ [status |-> IF num_simulations > 0 THEN "path" ELSE "stats",
                      prices |-> IF num_simulations > 0 THEN <<entry_price>> ELSE <<>>,
                      entry_price |-> entry_price,
                      stop_loss |-> stop_loss, take_profit |-> take_profit,
                      daily_volatility |-> RatDiv(atr, entry_price),
                      win_probability |-> RatDiv(confidence_score, Num(100))]

PricePathStepUnfloored(prices, volatility, drift_bias, g) ==
    LET drift == RatMul(RatSub(drift_bias, Rat(1, 2)), Rat(1, 10))
        draw == Normal(g)
        price_change == RatAdd(drift, RatMul(volatility, draw.shock))
        new_price == RatMul(prices[Len(prices)], RatAdd(Num(1), price_change))
    IN [prices |-> Append(prices, new_price), rng |-> draw.rng]

(* one iteration of the loop of _generate_price_path *)
PricePathStep(prices, volatility, drift_bias, g) ==
    LET drift == RatMul(RatSub(drift_bias, Rat(1, 2)), Rat(1, 10))
        draw == Normal(g)
        price_change == RatAdd(drift, RatMul(volatility, draw.shock))
        new_price == RatMul(prices[Len(prices)], RatAdd(Num(1), price_change))
    IN [prices |-> Append(prices, RatMax(new_price, Rat(1, 100))), rng |-> draw.rng]

PathOutcomeFinalOnly(price_path, entry_price, stop_loss, take_profit) ==
    RatDiv(RatSub(price_path[Len(price_path)], entry_price), entry_price)

PathOutcomeSkipEntry(price_path, entry_price, stop_loss, take_profit) ==
    LET final_price == price_path[Len(price_path)]
        later == Tail(price_path)
    IN IF \E i \in DOMAIN later : RatLE(later[i], stop_loss)
       THEN RatDiv(RatSub(stop_loss, entry_price), entry_price)
       ELSE IF \E i \in DOMAIN later : RatLE(take_profit, later[i])
       THEN RatDiv(RatSub(take_profit, entry_price), entry_price)
       ELSE RatDiv(RatSub(final_price, entry_price), entry_price)

PathOutcomeChronological(price_path, entry_price, stop_loss, take_profit) ==
    LET final_price == price_path[Len(price_path)]
        stops == {i \in DOMAIN price_path : RatLE(price_path[i], stop_loss)}
        targets == {i \in DOMAIN price_path : RatLE(take_profit, price_path[i])}
    IN IF stops # {} /\ \A i \in targets : \E j \in stops : j <= i
       THEN RatDiv(RatSub(stop_loss, entry_price), entry_price)
       ELSE IF targets # {}
       THEN RatDiv(RatSub(take_profit, entry_price), entry_price)
       ELSE RatDiv(RatSub(final_price, entry_price), entry_price)

(* lines 206-216: the outcome of one price path *)
PathOutcome(price_path, entry_price, stop_loss, take_profit) ==
    LET final_price == price_path[Len(price_path)]
    IN IF \E i \in DOMAIN price_path : RatLE(price_path[i], stop_loss)
       THEN RatDiv(RatSub(stop_loss, entry_price), entry_price)
       ELSE IF \E i \in DOMAIN price_path : RatLE(take_profit, price_path[i])
       THEN RatDiv(RatSub(take_profit, entry_price), entry_price)
       ELSE RatDiv(RatSub(final_price, entry_price), entry_price)

(* lines 203-218 on the path _generate_price_path returned, then the head of   *)
(* the loop: the next call of _generate_price_path or the end of the loop; a   *)
(* comparison with None raises                                                 *)
OutcomeStep(f) ==
    LET outcome == PathOutcome(f.prices, f.entry_price, f.stop_loss, f.take_profit)
        stopped == \E i \in DOMAIN f.prices : RatLE(f.prices[i], f.stop_loss)
        failed == f.stop_loss = NoneVal \/ (~stopped /\ f.take_profit = NoneVal)
        more == Len(f.outcomes) + 1 < f.num_simulations
    IN IF failed
       THEN [f EXCEPT !.status = "error", !.prices = <<>>,
                      !.price_paths = Append(@, f.prices)]
       ELSE [f EXCEPT !.outcomes = Append(@, outcome),
                      !.price_paths = Append(@, f.prices),
                      !.prices = IF more THEN <<f.entry_price>> ELSE <<>>,
                      !.status = IF more THEN "path" ELSE "stats"]

RECURSIVE RatSum(_)
RatSum(s) == IF s = <<>> THEN Zero ELSE RatAdd(Head(s), RatSum(Tail(s)))
Mean(s) == RatDiv(RatSum(s), Num(Len(s)))

RECURSIVE Insert(_, _)
Insert(x, s) ==
    IF s = <<>> THEN <<x>>
    ELSE IF RatLE(x, Head(s)) THEN <<x>> \o s
    ELSE <<Head(s)>> \o Insert(x, Tail(s))

RECURSIVE Sort(_)
Sort(s) == IF s = <<>> THEN <<>> ELSE Insert(Head(s), Sort(Tail(s)))

(* np.percentile: linear interpolation between the two nearest order statistics *)
Percentile(outcomes, q) ==
    LET a == Sort(outcomes)
        index == Rat(q * (Len(a) - 1), 100)
        lo == Trunc(index)
        hi == Min(lo + 1, Len(a) - 1)
    IN RatAdd(a[lo + 1], RatMul(RatSub(index, Num(lo)), RatSub(a[hi + 1], a[lo + 1])))

(* _generate_monte_carlo_recommendation; each text is named by its first words *)
Recommendation(expected_return, var_95, win_rate) ==
    IF /\ RatLT(Rat(5, 100), expected_return) /\ RatLT(Rat(-1, 10), var_95)
       /\ RatLT(Rat(6, 10), win_rate)
    THEN "STRONG BUY"
    ELSE IF /\ RatLT(Rat(2, 100), expected_return) /\ RatLT(Rat(-15, 100), var_95)
            /\ RatLT(Rat(1, 2), win_rate)
    THEN "BUY"
    ELSE IF RatLT(Rat(-2, 100), expected_return) /\ RatLT(Rat(-2, 10), var_95)
    THEN "HOLD"
    ELSE IF RatLT(expected_return, Rat(-5, 100)) \/ RatLT(var_95, Rat(-25, 100))
    THEN "AVOID"
    ELSE "CAUTION"

ShareOfOthers(s, outcomes) == Rat(Len(s), Max(1, Len(outcomes) - Len(s)))

(* np.sum(condition) / len(outcomes) *)
Share(s, outcomes) == Rat(Len(s), Len(outcomes))

(* lines 220-265: the statistics of the outcomes; std_deviation, a square      *)
(* root, is not a rational and is left out of the record                       *)
Statistics(outcomes) ==
    LET IsWin(o) == RatLT(Zero, o)
        IsLoss(o) == RatLT(o, Zero)
        IsEven(o) == RatLT(RatAbs(o), Rat(1, 1000))
        Pct(x) == Round(RatMul(x, Num(100)), 2)
        wins == SelectSeq(outcomes, IsWin)
        losses == SelectSeq(outcomes, IsLoss)
        sorted == Sort(outcomes)
        win_rate == Share(wins, outcomes)
        avg_win == IF wins # <<>> THEN Mean(wins) ELSE Zero
        avg_loss == IF losses # <<>> THEN Mean(losses) ELSE Zero
        var_95 == Percentile(outcomes, 5)
        IsTail(o) == RatLE(o, var_95)
        cvar_95 == Mean(SelectSeq(outcomes, IsTail))
        expected_return == Mean(outcomes)
    IN [simulation_results |->
            [expected_return |-> Pct(expected_return),
             win_rate |-> Pct(win_rate),
             average_win |-> Pct(avg_win),
             average_loss |-> Pct(avg_loss),
             profit_factor |-> Round(IF avg_loss # Zero
                                     THEN RatAbs(RatDiv(avg_win, avg_loss)) ELSE Zero, 2),
             var_95 |-> Pct(var_95),
             cvar_95 |-> Pct(cvar_95),
             max_gain |-> Pct(sorted[Len(sorted)]),
             max_loss |-> Pct(sorted[1]),
             error |-> FALSE],
        outcome_probabilities |->
            [probability_profit |-> Pct(Share(wins, outcomes)),
             probability_loss |-> Pct(Share(losses, outcomes)),
             probability_breakeven |-> Pct(Share(SelectSeq(outcomes, IsEven), outcomes))],
        percentiles |->
            [p10 |-> Pct(Percentile(outcomes, 10)),
             p25 |-> Pct(Percentile(outcomes, 25)),
             p50 |-> Pct(Percentile(outcomes, 50)),
             p75 |-> Pct(Percentile(outcomes, 75)),
             p90 |-> Pct(Percentile(outcomes, 90))],
        recommendation |-> Recommendation(expected_return, var_95, win_rate)]

(* lines 267-274: the record of the except clause *)
SimulationError ==
    [simulation_results |-> [error |-> TRUE],
     outcome_probabilities |-> <<>>,
     percentiles |-> <<>>,
     recommendation |-> "Unable to perform simulation due to error"]

(* the call run on its own from the generator state seed: the steps of the     *)
(* actions below with nothing in between                                       *)
RECURSIVE McRun(_, _)
McRun(f, g) ==
    IF f.status # "path" THEN f
    ELSE IF Len(f.prices) <= f.time_horizon
    THEN LET step == PricePathStep(f.prices, f.daily_volatility, f.win_probability, g)
         IN McRun([f EXCEPT !.prices = step.prices], step.rng)
    ELSE McRun(OutcomeStep(f), g)

(* the statistics of no outcome at all end in the except clause: np.max of an   *)
(* empty array raises ValueError (line 248)                                    *)
McResult(f) ==
    IF f.status = "error" \/ f.outcomes = <<>> THEN SimulationError
    ELSE Statistics(f.outcomes)

RunAlone(signal_data, num_simulations, time_horizon, seed) ==
    McResult(McRun(McLocals(signal_data, num_simulations, time_horizon, seed), seed))

(* the signal records handed to monte_carlo_simulation: stop_loss below, at    *)
(* and above entry_price, one record whose entry_price is 0 and one whose      *)
(* levels are not a whole percentage of entry_price                            *)
McSetups == {<<Num(90), Num(120)>>, <<Missing, Missing>>,
             <<Num(100), Num(120)>>, <<Num(110), Num(90)>>}
McSignals ==
    {[entry_price |-> Num(100), stop_loss |-> s[1], take_profit |-> s[2],
      confidence_score |-> c, atr |-> a] :
        s \in McSetups, c \in {Num(0), Num(50), Num(100)},
        a \in {Missing, Num(25), Num(50)}}
    \cup {[entry_price |-> Num(0), stop_loss |-> Missing, take_profit |-> Missing,
           confidence_score |-> Num(50), atr |-> Missing],
          [entry_price |-> Num(30), stop_loss |-> Num(28), take_profit |-> Num(32),
           confidence_score |-> Num(50), atr |-> Missing]}

(* the records of two callers that share the engine *)
SharedSignals ==
    {s \in McSignals : /\ s.stop_loss = Num(90) /\ s.confidence_score = Num(50)
                       /\ s.atr = Num(25)}

Callers == {1, 2}
InMc == pc \in {"mc", "mc_shared"}
Running(c) == InMc /\ c \in DOMAIN mc

(* one caller invokes monte_carlo_simulation; the generator is in the state    *)
(* np.random.seed or earlier draws left it in                                  *)
McCall ==
    /\ pc = "idle"
    /\ \E s \in Seeds, sig \in McSignals,
          n \in 0..MaxSims, h \in 0..MaxHorizon :
          /\ rng' = s
          /\ mc' = (1 :> McLocals(sig, n, h, s))
    /\ pc' = "mc"
    /\ UNCHANGED <<args, sim, out, batch, bt, objects, runs>>

(* a caller invokes monte_carlo_simulation on an engine other callers may be   *)
(* inside of                                                                   *)
McCallShared(c) ==
    /\ pc \in {"idle", "mc_shared"}
    /\ c \notin DOMAIN mc
    /\ \E s \in IF pc = "idle" THEN Seeds ELSE {rng}, sig \in SharedSignals,
          n \in 1..MaxSims, h \in 0..MaxHorizon :
          /\ rng' = s
          /\ mc' = mc @@ (c :> McLocals(sig, n, h, s))
    /\ pc' = "mc_shared"
    /\ UNCHANGED <<args, sim, out, batch, bt, objects, runs>>

(* one iteration of the loop of _generate_price_path: one draw *)
McDraw(c) ==
    /\ Running(c)
    /\ mc[c].status = "path"
    /\ Len(mc[c].prices) <= mc[c].time_horizon
    /\ LET f == mc[c]
           step == PricePathStep(f.prices, f.daily_volatility, f.win_probability, rng)
       IN /\ mc' = [mc EXCEPT ![c].prices = step.prices]
          /\ rng' = step.rng
    /\ UNCHANGED <<pc, args, sim, out, batch, bt, objects, runs>>

(* _generate_price_path returns; the path is classified *)
McOutcome(c) ==
    /\ Running(c)
    /\ mc[c].status = "path"
    /\ Len(mc[c].prices) = mc[c].time_horizon + 1
    /\ mc' = [mc EXCEPT ![c] = OutcomeStep(mc[c])]
    /\ UNCHANGED <<pc, args, sim, out, batch, bt, objects, rng, runs>>

(* after the loop, or from the except clause: the result is returned *)
McReturn(c) ==
    /\ Running(c)
    /\ mc[c].status \in {"stats", "error"}
    /\ LET f == mc[c]
       IN \E v \in {McResult(f)} :
             /\ out' = [kind |-> "mc", v |-> v]
             /\ runs' = Append(runs, [caller |-> c, seed |-> f.seed,
                                      signal_data |-> f.signal_data,
                                      num_simulations |-> f.num_simulations,
                                      time_horizon |-> f.time_horizon,
                                      outcomes |-> f.outcomes, v |-> v])
    /\ mc' = [mc EXCEPT ![c].status = "returned"]
    /\ risk_manager' = SelfAfter(risk_manager)
    /\ UNCHANGED <<pc, args, sim, batch, bt, backtester, broker_interface, rng>>

(* the caller sets the generator to the seed of its first run and calls again  *)
(* with the same arguments                                                     *)
McRepeat ==
    /\ pc = "mc"
    /\ mc[1].status = "returned"
    /\ Len(runs) = 1
    /\ rng' = runs[1].seed
    /\ mc' = (1 :> McLocals(runs[1].signal_data, runs[1].num_simulations,
                            runs[1].time_horizon, runs[1].seed))
    /\ UNCHANGED <<pc, args, sim, out, batch, bt, objects, runs>>

(* every caller has its result; the state the generator is left in is not      *)
(* followed any further                                                        *)
McFinish ==
    /\ InMc
    /\ \A c \in DOMAIN mc : mc[c].status = "returned"
    /\ pc' = "idle"
    /\ mc' = NoMc /\ rng' = NoneStr /\ runs' = <<>> /\ out' = NoOut
    /\ UNCHANGED <<args, sim, batch, bt, objects>>

-----------------------------------------------------------------------------
(* AdvancedRiskManager: the other public operations *)

(* dynamic_stop_loss; the except clause returns the fixed 5% stop *)
DynamicStopLoss(entry_price, current_price, atr, direction, trailing_factor) ==
    LET long == direction = "long"
        distance == RatMul(atr, trailing_factor)
        basic_stop == IF long THEN RatSub(entry_price, distance)
                      ELSE RatAdd(entry_price, distance)
        trailing_stop == IF long THEN RatSub(current_price, distance)
                         ELSE RatAdd(current_price, distance)
        final_stop ==
            IF long
            THEN RatMin(RatMax(basic_stop, trailing_stop), RatMul(entry_price, Rat(95, 100)))
            ELSE RatMax(RatMin(basic_stop, trailing_stop), RatMul(entry_price, Rat(105, 100)))
        stop_distance == RatAbs(RatSub(current_price, final_stop))
        stop_percentage == RatMul(RatDiv(stop_distance, current_price), Num(100))
        failed == atr = NoneVal \/ current_price.n = 0
    IN IF failed
       THEN [stop_loss_price |-> RatMul(entry_price, IF long THEN Rat(95, 100)
                                                      ELSE Rat(105, 100)),
             error |-> TRUE]
       ELSE [stop_loss_price |-> Round(final_stop, 2),
             stop_distance |-> Round(stop_distance, 2),
             stop_percentage |-> Round(stop_percentage, 2),
             atr_multiplier |-> trailing_factor,
             is_trailing |-> trailing_stop # basic_stop,
             error |-> FALSE]

RECURSIVE DrawdownPeriodsNonStrict(_, _, _, _, _)
DrawdownPeriodsNonStrict(drawdown, i, in_drawdown, start_period, periods) ==
    IF i > Len(drawdown)
    THEN IF in_drawdown THEN Append(periods, Len(drawdown) - start_period) ELSE periods
    ELSE IF RatLE(drawdown[i], Zero) /\ ~in_drawdown
    THEN DrawdownPeriodsNonStrict(drawdown, i + 1, TRUE, i - 1, periods)
    ELSE IF ~RatLE(drawdown[i], Zero) /\ in_drawdown
    THEN DrawdownPeriodsNonStrict(drawdown, i + 1, FALSE, start_period,
                                  Append(periods, (i - 1) - start_period))
    ELSE DrawdownPeriodsNonStrict(drawdown, i + 1, in_drawdown, start_period, periods)

RECURSIVE DrawdownPeriodsNoTrailing(_, _, _, _, _)
DrawdownPeriodsNoTrailing(drawdown, i, in_drawdown, start_period, periods) ==
    IF i > Len(drawdown)
    THEN periods
    ELSE IF RatLT(drawdown[i], Zero) /\ ~in_drawdown
    THEN DrawdownPeriodsNoTrailing(drawdown, i + 1, TRUE, i - 1, periods)
    ELSE IF ~RatLT(drawdown[i], Zero) /\ in_drawdown
    THEN DrawdownPeriodsNoTrailing(drawdown, i + 1, FALSE, start_period,
                                   Append(periods, (i - 1) - start_period))
    ELSE DrawdownPeriodsNoTrailing(drawdown, i + 1, in_drawdown, start_period, periods)

(* the loop over the drawdown series that collects the lengths of the episodes *)
RECURSIVE DrawdownPeriods(_, _, _, _, _)
DrawdownPeriods(drawdown, i, in_drawdown, start_period, periods) ==
    IF i > Len(drawdown)
    THEN IF in_drawdown THEN Append(periods, Len(drawdown) - start_period) ELSE periods
    ELSE IF RatLT(drawdown[i], Zero) /\ ~in_drawdown
    THEN DrawdownPeriods(drawdown, i + 1, TRUE, i - 1, periods)
    ELSE IF ~RatLT(drawdown[i], Zero) /\ in_drawdown
    THEN DrawdownPeriods(drawdown, i + 1, FALSE, start_period,
                         Append(periods, (i - 1) - start_period))
    ELSE DrawdownPeriods(drawdown, i + 1, in_drawdown, start_period, periods)

SeqMaxLast(s) == s[Len(s)]

(* the maximum of an expanding window *)
RECURSIVE SeqMax(_)
SeqMax(s) == IF Len(s) = 1 THEN s[1] ELSE Max(s[1], SeqMax(Tail(s)))

(* _assess_drawdown_risk; each text is named by its first words *)
AssessDrawdownRisk(max_drawdown, current_drawdown) ==
    IF RatLT(max_drawdown, Rat(-2, 10)) THEN "HIGH RISK"
    ELSE IF RatLT(max_drawdown, Rat(-1, 10)) THEN "MEDIUM RISK"
    ELSE IF RatLT(current_drawdown, Rat(-5, 100)) THEN "CAUTION"
    ELSE "LOW RISK"

DrawdownFromFirst(portfolio_values) ==
    [i \in 1..Len(portfolio_values) |->
        Rat(portfolio_values[i] - portfolio_values[1], portfolio_values[1])]

(* lines 418-424: the drawdown series of a series of positive values *)
Drawdown(portfolio_values) ==
    LET n == Len(portfolio_values)
        running_max == [i \in 1..n |-> SeqMax(SubSeq(portfolio_values, 1, i))]
    IN [i \in 1..n |-> Rat(portfolio_values[i] - running_max[i], running_max[i])]

(* check_drawdown on a series of positive values *)
CheckDrawdown(portfolio_values) ==
    LET n == Len(portfolio_values)
        drawdown == Drawdown(portfolio_values)
        max_drawdown == Sort(drawdown)[1]
        current_drawdown == drawdown[n]
        drawdown_periods == DrawdownPeriods(drawdown, 1, FALSE, 0, <<>>)
        avg_drawdown_duration ==
            IF drawdown_periods # <<>>
            THEN Mean([i \in DOMAIN drawdown_periods |-> Num(drawdown_periods[i])])
            ELSE Zero
        max_drawdown_duration ==
            IF drawdown_periods # <<>> THEN SeqMax(drawdown_periods) ELSE 0
        total_return == Rat(portfolio_values[n] - portfolio_values[1], portfolio_values[1])
        recovery_factor == IF max_drawdown # Zero
                           THEN RatAbs(RatDiv(total_return, max_drawdown)) ELSE Zero
    IN IF n < 2 THEN [error |-> TRUE]
       ELSE [max_drawdown |-> Round(RatMul(max_drawdown, Num(100)), 2),
             current_drawdown |-> Round(RatMul(current_drawdown, Num(100)), 2),
             avg_drawdown_duration |-> Round(avg_drawdown_duration, 1),
             max_drawdown_duration |-> max_drawdown_duration,
             recovery_factor |-> Round(recovery_factor, 2),
             total_return |-> Round(RatMul(total_return, Num(100)), 2),
             risk_assessment |-> AssessDrawdownRisk(max_drawdown, current_drawdown),
             error |-> FALSE]

(* _calculate_diversification_score; each text is named by its first words *)
DiversificationScore(avg_correlation, num_assets) ==
    IF num_assets < 3 THEN "POOR - Too few assets"
    ELSE IF RatLT(Rat(8, 10), avg_correlation) THEN "POOR - High correlation"
    ELSE IF RatLT(Rat(6, 10), avg_correlation) THEN "FAIR"
    ELSE IF RatLT(Rat(4, 10), avg_correlation) THEN "GOOD"
    ELSE "EXCELLENT"

(* calculate_portfolio_correlation; the returns frame is given by what pandas  *)
(* computes from it: the correlations of the pairs of columns above the        *)
(* diagonal and the two variances                                              *)
PortfolioCorrelation(num_assets, returns_data) ==
    LET avg_correlation == Mean(returns_data.corr)
        diversification_ratio ==
            IF RatLT(Zero, returns_data.portfolio_variance)
            THEN RatDiv(returns_data.weighted_avg_variance, returns_data.portfolio_variance)
            ELSE Num(1)
        high == {i \in DOMAIN returns_data.corr :
                    RatLT(Rat(7, 10), RatAbs(returns_data.corr[i]))}
    IN IF returns_data.kind # "data" THEN [error |-> TRUE]
       ELSE [correlation_matrix |-> [i \in DOMAIN returns_data.corr |->
                                        Round(returns_data.corr[i], 3)],
             average_correlation |-> Round(avg_correlation, 3),
             diversification_ratio |-> Round(diversification_ratio, 3),
             high_correlation_pairs |-> high,
             diversification_score |-> DiversificationScore(avg_correlation, num_assets),
             error |-> FALSE]

(* _generate_trade_recommendation; each text is named by its first words *)
TradeRecommendation(mc_results, risk_reward_ratio, scenarios) ==
    LET expected_return == mc_results.simulation_results.expected_return
        win_rate == mc_results.simulation_results.win_rate
        max_portfolio_impact == RatAbs(scenarios.worst_case.portfolio_impact)
    IN IF /\ RatLT(Num(3), expected_return) /\ RatLT(Num(60), win_rate)
          /\ RatLT(Num(2), risk_reward_ratio) /\ RatLT(max_portfolio_impact, Num(2))
       THEN "STRONG BUY"
       ELSE IF /\ RatLT(Num(1), expected_return) /\ RatLT(Num(50), win_rate)
               /\ RatLT(Rat(3, 2), risk_reward_ratio)
       THEN "BUY"
       ELSE IF RatLT(Num(-1), expected_return) /\ RatLT(max_portfolio_impact, Num(1))
       THEN "NEUTRAL"
       ELSE "AVOID"

(* _suggest_hedging_strategies; each text is named by its subject *)
HedgingStrategies(signal_data, scenarios) ==
    (IF RatLT(Num(2), RatAbs(scenarios.worst_case.portfolio_impact))
     THEN <<"position size">> ELSE <<>>)
    \o (IF RatLT(Rat(5, 100), RatDiv(Get(signal_data.atr, Zero),
                                     Get(signal_data.entry_price, Num(100))))
        THEN <<"volatility">> ELSE <<>>)
    \o (IF signal_data.sector # "unknown" THEN <<"sector">> ELSE <<>>)
    \o <<"market">>

(* the four scenarios of simulate_trade_outcomes *)
Scenarios(self, mc_results, position_sizing) ==
    LET position_value == position_sizing.position_value
        max_risk == position_sizing.max_risk_amount
        \* (position_value * return_pct / 100) / portfolio_value * 100, the
        \* factor 100 taken before the division, which gives the same rational
        Impact(return_pct) ==
            RatDiv(RatMul(RatDiv(RatMul(position_value, return_pct), Num(100)),
                          Num(100)), self.portfolio_value)
        Case(return_pct) ==
            [return_pct |-> return_pct, portfolio_impact |-> Impact(return_pct)]
    IN [best_case |-> Case(mc_results.percentiles.p90),
        expected_case |-> Case(mc_results.simulation_results.expected_return),
        worst_case |-> Case(mc_results.percentiles.p10),
        stop_loss_case |->
           [return_pct |-> IF RatLT(Zero, position_value)
                           THEN RatMul(RatDiv(RatNeg(max_risk), position_value),
                                       Num(100))
                           ELSE Zero,
            portfolio_impact |->
                RatMul(RatDiv(RatNeg(max_risk), self.portfolio_value), Num(100))]]

(* simulate_trade_outcomes once the simulation and the sizing have returned;   *)
(* an exception of calculate_position_size and a missing key of the error      *)
(* record of monte_carlo_simulation are caught by the except clause            *)
TradeOutcomes(self, signal_data, mc_results, sizing) ==
    LET Report(scenarios) ==
            LET risk_reward_ratio ==
                    IF scenarios.worst_case.return_pct # Zero
                    THEN RatAbs(RatDiv(scenarios.best_case.return_pct,
                                       scenarios.worst_case.return_pct))
                    ELSE Zero
            IN [monte_carlo_results |-> mc_results,
                position_sizing |-> sizing.v,
                scenarios |-> scenarios,
                risk_reward_ratio |-> Round(risk_reward_ratio, 2),
                recommendation |->
                    TradeRecommendation(mc_results, risk_reward_ratio, scenarios),
                hedging_suggestions |-> HedgingStrategies(signal_data, scenarios),
                error |-> FALSE]
    IN IF sizing.raised \/ mc_results.simulation_results.error
       THEN [error |-> TRUE]
       ELSE CHOOSE r \in {Report(scenarios) :
                              scenarios \in {Scenarios(self, mc_results, sizing.v)}} : TRUE

(* simulate_trade_outcomes: the simulation it runs has the default 5000 paths  *)
(* of 20 steps in the code and MaxSims paths of MaxHorizon steps here          *)
SimulateTradeOutcomes(self, signal_data, portfolio_data, seed) ==
    CHOOSE r \in {TradeOutcomes(self, signal_data, mc_results, sizing) :
                     mc_results \in {RunAlone(signal_data, MaxSims, MaxHorizon, seed)},
                     sizing \in {CalculatePositionSize(self, signal_data, portfolio_data)}} :
        TRUE

(* the arguments handed to the other operations *)
StopPrices == {Num(0), Num(90), Num(120)}
StopAtrs == {NoneVal, Num(2), Num(5)}
SeriesValues == {80, 90, 95, 100}
DipValues == {90, 100}
(* every series of up to MaxSeries values, the series of up to LongSeriesExtra  *)
(* more values that dip and recover, and two whose dip is 0.001%               *)
DrawdownSeries ==
    SeqsUpTo(SeriesValues, MaxSeries)
    \cup UNION {[1..k -> DipValues] : k \in (MaxSeries + 1)..(MaxSeries + LongSeriesExtra)}
    \cup {<<100000, 99999>>, <<100000, 99999, 100000>>}
PairCorrelations == {Rat(9, 10), Rat(1, 2), Rat(-8, 10)}
ReturnsFrames(num_assets) ==
    {[kind |-> k, corr |-> <<>>, portfolio_variance |-> Zero,
      weighted_avg_variance |-> Zero] : k \in {"None", "empty"}}
    \cup {[kind |-> "data", corr |-> c, portfolio_variance |-> v,
           weighted_avg_variance |-> Num(3)] :
             c \in [1..((num_assets * (num_assets - 1)) \div 2) -> PairCorrelations],
             v \in {Zero, Num(2)}}
OutcomeSignals ==
    [confidence_score : {Num(50), Num(100)}, risk_level : {"low"},
     entry_price : {NoneVal, Num(0), Num(100)}, stop_loss : {Missing, Num(90)},
     take_profit : {Missing, Num(120)}, atr : {Missing, Num(25)},
     sector : {"unknown", "tech"}]

(* a caller invokes dynamic_stop_loss *)
DynamicStopLossCall ==
    /\ pc = "idle"
    /\ \E current_price \in StopPrices, atr \in StopAtrs, direction \in BtDirections :
          /\ args' = [entry_price |-> Num(100), current_price |-> current_price,
                      atr |-> atr, direction |-> direction, trailing_factor |-> Num(2)]
          /\ out' = [kind |-> "stop",
                     v |-> DynamicStopLoss(Num(100), current_price, atr, direction, Num(2))]
    /\ risk_manager' = SelfAfter(risk_manager)
    /\ pc' = "risk_done"
    /\ UNCHANGED <<sim, batch, bt, backtester, broker_interface, riskVars>>

(* a caller invokes check_drawdown *)
CheckDrawdownCall ==
    /\ pc = "idle"
    /\ \E portfolio_values \in DrawdownSeries :
          /\ args' = [portfolio_values |-> portfolio_values]
          /\ out' = [kind |-> "drawdown", v |-> CheckDrawdown(portfolio_values)]
    /\ risk_manager' = SelfAfter(risk_manager)
    /\ pc' = "risk_done"
    /\ UNCHANGED <<sim, batch, bt, backtester, broker_interface, riskVars>>

(* a caller invokes calculate_portfolio_correlation *)
PortfolioCorrelationCall ==
    /\ pc = "idle"
    /\ \E num_assets \in {2, 3} : \E returns_data \in ReturnsFrames(num_assets) :
          /\ args' = [num_assets |-> num_assets, returns_data |-> returns_data]
          /\ out' = [kind |-> "correlation",
                     v |-> PortfolioCorrelation(num_assets, returns_data)]
    /\ risk_manager' = SelfAfter(risk_manager)
    /\ pc' = "risk_done"
    /\ UNCHANGED <<sim, batch, bt, backtester, broker_interface, riskVars>>

(* a caller invokes simulate_trade_outcomes; the generator is in some state *)
SimulateTradeOutcomesCall ==
    /\ pc = "idle"
    /\ \E s \in Seeds, sig \in OutcomeSignals, p \in Portfolios :
          /\ p.total_risk_exposure \in {Missing, Num(6000)}
          /\ args' = [signal_data |-> sig, portfolio_data |-> p]
          /\ out' = [kind |-> "outcomes",
                     v |-> SimulateTradeOutcomes(risk_manager, sig, p, s)]
    /\ risk_manager' = SelfAfter(risk_manager)
    /\ pc' = "risk_done"
    /\ UNCHANGED <<sim, batch, bt, backtester, broker_interface, riskVars>>

(* the caller takes the result *)
RiskFinish ==
    /\ pc = "risk_done"
    /\ pc' = "idle"
    /\ args' = NoArgs /\ out' = NoOut
    /\ UNCHANGED <<sim, batch, bt, objects, riskVars>>

-----------------------------------------------------------------------------
(* Properties of simulate_trade, stated on the call that has returned          *)

SimDone == pc = "sim_done"
Res == out.v
IsLong == args.direction = "long"
IsShort == args.direction = "short"

(* the row breaches the stop-loss / the take-profit level of the trade *)
HitsStop(row) ==
    IF IsLong THEN row.Low <= args.stop_loss ELSE row.High >= args.stop_loss
HitsTarget(row) ==
    IF IsLong THEN row.High >= args.take_profit ELSE row.Low <= args.take_profit
Triggers(row) == HitsStop(row) \/ HitsTarget(row)

(* positions of the rows that trigger an exit, and whether k is the first *)
TriggerRows == {k \in 1..Len(args.price_data) : Triggers(args.price_data[k])}
FirstTrigger(k) == k \in TriggerRows /\ \A j \in TriggerRows : k <= j

(* C1: when the row the walk has just examined (so no earlier row triggered)   *)
(* breaches both the stop-loss and the take-profit level, long or short, the   *)
(* trade exits with exit_reason = stop_loss at exit_price = stop_loss          *)
C1_StopLossFirst ==
    (/\ pc \in {"walk", "sim_done"}
     /\ IsLong \/ IsShort
     /\ sim.idx >= 1
     /\ HitsStop(args.price_data[sim.idx])
     /\ HitsTarget(args.price_data[sim.idx]))
    => /\ sim.exit_reason = "stop_loss"
       /\ sim.exit_price = args.stop_loss
       /\ SimDone => Res.exit_reason = "stop_loss" /\ Res.exit_price = args.stop_loss

C1_Witness ==
    /\ SimDone
    /\ IsShort
    /\ sim.idx = 2
    /\ HitsStop(args.price_data[2])
    /\ HitsTarget(args.price_data[2])
    /\ args.stop_loss # args.take_profit

(* C2: a long trade over any rows, none included, returns an exit_price among  *)
(* stop_loss, take_profit and entry_price and an exit_reason among stop_loss,  *)
(* take_profit and time_horizon_end, the reason deciding the price             *)
C2_LongExitDomain ==
    (SimDone /\ IsLong) =>
        /\ Res.exit_price \in {args.stop_loss, args.take_profit, args.entry_price}
        /\ Res.exit_reason \in {"stop_loss", "take_profit", "time_horizon_end"}
        /\ Res.exit_reason = "stop_loss" => Res.exit_price = args.stop_loss
        /\ Res.exit_reason = "take_profit" => Res.exit_price = args.take_profit
        /\ Res.exit_reason = "time_horizon_end" => Res.exit_price = args.entry_price

C2_Witness ==
    /\ SimDone
    /\ IsLong
    /\ Res.exit_reason = "stop_loss"
    /\ sim.idx = 2
    /\ args.price_data[2].Low < args.stop_loss
    /\ args.stop_loss # args.entry_price

TargetFirst ==
    \E k \in 1..Len(args.price_data) :
        /\ FirstTrigger(k)
        /\ args.price_data[k].High >= args.take_profit
        /\ args.price_data[k].Low > args.stop_loss

(* C3: a long trade exits by take_profit, at take_profit, with return_pct =    *)
(* (take_profit - entry_price)/entry_price*100, exactly when the first row     *)
(* that triggers has High >= take_profit and Low > stop_loss; the walk stops   *)
(* at the first triggering row, and the rows after it change nothing: the      *)
(* outcome is that of the rows up to it                                        *)
C3_TakeProfitFirstTrigger ==
    (SimDone /\ IsLong) =>
        /\ Res.exit_reason = "take_profit" <=> TargetFirst
        /\ TargetFirst =>
            /\ Res.exit_price = args.take_profit
            /\ Res.return_pct =
                 Rat((args.take_profit - args.entry_price) * 100, args.entry_price)
        /\ \A k \in 1..Len(args.price_data) : FirstTrigger(k) =>
            LET upto == SimulateTrade([args EXCEPT !.price_data = SubSeq(@, 1, k)]).v
            IN /\ sim.idx = k
               /\ Res.exit_price = upto.exit_price
               /\ Res.exit_reason = upto.exit_reason
               /\ Res.max_drawdown = upto.max_drawdown

C3_Witness ==
    /\ SimDone
    /\ IsLong
    /\ args.stop_loss < args.entry_price
    /\ args.entry_price < args.take_profit
    /\ Len(args.price_data) = 3
    /\ FirstTrigger(2)
    /\ Res.exit_reason = "take_profit"
    /\ args.price_data[3].Low <= args.stop_loss

(* C4: when no row triggers an exit (either direction, no rows included) the   *)
(* trade returns time_horizon_end at exit_price = entry_price, return_pct = 0, *)
(* whatever the rows' closing prices                                           *)
C4_HorizonEndAtEntry ==
    (SimDone /\ TriggerRows = {}) =>
        /\ Res.exit_reason = "time_horizon_end"
        /\ Res.exit_price = args.entry_price
        /\ Res.return_pct = Zero

C4_Witness ==
    /\ SimDone
    /\ TriggerRows = {}
    /\ Len(args.price_data) = 2
    /\ args.price_data[2].Close # args.entry_price
    /\ args.price_data[1].Close # args.price_data[2].Close
    /\ RatLT(Res.max_drawdown, Zero)

Sign(x) == IF x > 0 THEN 1 ELSE IF x < 0 THEN -1 ELSE 0

(* C5: return_pct is (exit_price - entry_price)/entry_price*100 for a long     *)
(* trade and (entry_price - exit_price)/entry_price*100 for a short one, so    *)
(* its sign is that of exit - entry for long and of entry - exit for short     *)
C5_ReturnPct ==
    (SimDone /\ (IsLong \/ IsShort)) =>
        LET gain == IF IsLong THEN Res.exit_price - args.entry_price
                    ELSE args.entry_price - Res.exit_price
        IN /\ Res.return_pct = Rat(gain * 100, args.entry_price)
           /\ Sign(Res.return_pct.n) = Sign(gain)

C5_Witness ==
    /\ SimDone
    /\ IsShort
    /\ Res.exit_price > args.entry_price
    /\ RatLT(Res.return_pct, Zero)

(* C6: the reported trade length is the number of rows the walk examined: k    *)
(* when the exit triggers at the k-th row, the length of price_data otherwise  *)
C6_TradeLengthIsRowsExamined ==
    SimDone => Res.trade_length_days = sim.idx

BelowEveryTrade(md, trades) ==
    \A i \in 1..Len(trades) : RatLE(md, trades[i].max_drawdown)

(* one step of either walk keeps the running minimum *)
DrawdownStep ==
    /\ (pc = "idle" /\ pc' = "walk") => sim'.max_drawdown = Zero
    /\ (pc = "walk" /\ pc' = "walk") => RatLE(sim'.max_drawdown, sim.max_drawdown)
    /\ pc' = "sim_done" => RatLE(out'.v.max_drawdown, Zero)
    /\ (pc = "idle" /\ pc' = "bt_loop") => bt'.max_drawdown = Zero
    /\ (pc = "bt_loop" /\ pc' = "bt_loop") =>
          /\ RatLE(bt'.max_drawdown, bt.max_drawdown)
          /\ BelowEveryTrade(bt'.max_drawdown, bt'.results)
    /\ pc' = "bt_done" =>
          /\ RatLE(out'.v.max_drawdown_pct, Zero)
          /\ BelowEveryTrade(out'.v.max_drawdown_pct, out'.v.trade_details)

(* C7: the running max_drawdown of simulate_trade starts at 0, never increases *)
(* from one row to the next and is <= 0 in the returned outcome; the overall   *)
(* max_drawdown of backtest_signals never increases from one signal to the     *)
(* next and is <= the max_drawdown of every trade simulated so far             *)
C7_DrawdownNonIncreasing == [][DrawdownStep]_vars

C7_Witness ==
    /\ pc = "walk"
    /\ sim.idx = 3
    /\ sim.status = "loop"
    /\ IsLong
    /\ RatLT(sim.max_drawdown, Zero)
    /\ args.price_data[3].Low = args.price_data[3].High
    /\ sim.peak_price = args.price_data[3].High

-----------------------------------------------------------------------------
(* Properties of backtest_signals *)

BtDone == pc = "bt_done"
Report == out.v

(* a required field of the signal is missing or invalid *)
Malformed(s) ==
    \/ s.asset = NoneStr
    \/ s.entry_date \in {NoneStr, "bad"}
    \/ s.direction = NoneStr
    \/ s.entry_price \in {None, 0}
    \/ s.stop_loss = None
    \/ s.take_profit = None

HasData(s) == s.fetched /\ s.window # <<>>

(* C8: no signal aborts the batch: a malformed signal or one without price     *)
(* data is skipped without raising, and every other signal is simulated and    *)
(* reported                                                                    *)
C8_FailureIsolated ==
    /\ pc # "raised"
    /\ BtDone =>
          Len(Report.trade_details) =
              Cardinality({i \in 1..Len(batch) : ~Malformed(batch[i]) /\ HasData(batch[i])})

(* the backtest of a whole batch, signal by signal *)
RECURSIVE RunSignals(_, _, _)
RunSignals(b, sigs, i) ==
    IF i > Len(sigs) \/ b.status = "raise" THEN b
    ELSE RunSignals(SignalStep(b, sigs[i]), sigs, i + 1)

ReportOf(sigs) == Performance(RunSignals(BtLocals, sigs, 1))

IsSimulated(s) == ~Skipped(s)
Simulated(sigs) == SelectSeq(sigs, IsSimulated)
Winners(trades) == {i \in 1..Len(trades) : RatLT(Zero, trades[i].return_pct)}

(* C9: in the report total_trades = wins + losses = length of trade_details =  *)
(* number of signals simulated; wins counts the trades with return_pct > 0 and *)
(* losses the others (0% included); the report is that of the batch without    *)
(* its skipped signals                                                         *)
C9_ReportCounts ==
    BtDone =>
        /\ Report.total_trades = Report.wins + Report.losses
        /\ Report.total_trades = Len(Report.trade_details)
        /\ Report.total_trades = Len(Simulated(batch))
        /\ Report.wins = Cardinality(Winners(Report.trade_details))
        /\ Report.losses = Len(Report.trade_details) - Cardinality(Winners(Report.trade_details))
        /\ Report = ReportOf(Simulated(batch))

C9_Witness ==
    /\ BtDone
    /\ Len(batch) = 2
    /\ Skipped(batch[1])
    /\ ~Skipped(batch[2])
    /\ Report.losses = 1
    /\ Report.trade_details[1].return_pct = Zero

AllSkipped == \A i \in 1..Len(batch) : Skipped(batch[i])

(* C10: the empty batch, and any batch whose signals are all skipped, returns  *)
(* total_trades = 0, win_rate = 0, average_return_pct = 0 and no trade_details *)
C10_EmptyReport ==
    (pc \in {"bt_done", "raised"} /\ AllSkipped) =>
        /\ BtDone
        /\ Report.total_trades = 0
        /\ Report.win_rate = Zero
        /\ Report.average_return_pct = Zero
        /\ Report.trade_details = <<>>

C10_Witness ==
    /\ BtDone
    /\ Len(batch) = 2
    /\ AllSkipped
    /\ Incomplete(batch[1])
    /\ ~Incomplete(batch[2])

(* the same call with direction "short" *)
AsShort == SimulateTrade([args EXCEPT !.direction = "short"]).v

(* C28: for a direction other than "long", "neutral" standing for any such     *)
(* string, simulate_trade returns the exit_price, exit_reason, return_pct and  *)
(* max_drawdown it returns for "short" on the same rows and prices             *)
C28_OtherDirectionIsShort ==
    (SimDone /\ ~IsLong) =>
        /\ Res.exit_price = AsShort.exit_price
        /\ Res.exit_reason = AsShort.exit_reason
        /\ Res.return_pct = AsShort.return_pct
        /\ Res.max_drawdown = AsShort.max_drawdown

(* a neutral trade that, after a row that triggered nothing, took the profit   *)
(* of a short trade                                                            *)
C28_Witness ==
    /\ SimDone
    /\ args.direction = "neutral"
    /\ sim.idx = 2
    /\ Res.exit_reason = "take_profit"
    /\ RatLT(Zero, Res.return_pct)
    /\ RatLT(Res.max_drawdown, Zero)

-----------------------------------------------------------------------------
(* Properties of calculate_position_size, stated on the call that has ended *)

SizeDone == pc = "size_done"
SizeReturned == SizeDone /\ ~out.raised
Sized == out.v
IsNumber(x) == x.d # 0
SignalEntry == Get(args.signal_data.entry_price, Num(100))
SignalStop == Get(args.signal_data.stop_loss, RatMul(SignalEntry, Rat(95, 100)))
SignalConfidence == Get(args.signal_data.confidence_score, Num(50))
PortfolioValue == risk_manager.portfolio_value

WellFormedSizing ==
    /\ RatLT(Zero, PortfolioValue)
    /\ IsNumber(SignalEntry) /\ RatLT(Zero, SignalEntry)
    /\ IsNumber(SignalStop) /\ SignalStop # SignalEntry

MaxShares == RatDiv(RatDiv(PortfolioValue, Num(10)), SignalEntry)
RiskBasedShares ==
    RatDiv(RatMul(PortfolioValue, risk_manager.max_portfolio_risk),
           RatAbs(RatSub(SignalEntry, SignalStop)))
ShareCap == RatMin(MaxShares, RiskBasedShares)

(* C12 as stated: for portfolio_value > 0, entry_price > 0 and stop_loss other *)
(* than entry_price, shares <= min(max_shares, risk_based_shares)              *)
C12_SharesWithinCaps ==
    (SizeReturned /\ WellFormedSizing) => RatLE(Num(Sized.shares), ShareCap)

(* C12: for portfolio_value > 0, entry_price > 0 and stop_loss other than      *)
(* entry_price, shares <= min(max_shares, risk_based_shares) unless that       *)
(* minimum is below one share, and then shares = 1                             *)
C12_SharesWithinCapsOrFloor ==
    (SizeReturned /\ WellFormedSizing) =>
        IF RatLE(Num(1), ShareCap) THEN RatLE(Num(Sized.shares), ShareCap)
        ELSE Sized.shares = 1

(* the risk budget is the binding cap and allows more than one share *)
C12_Witness ==
    /\ SizeReturned
    /\ WellFormedSizing
    /\ ~Sized.error
    /\ Sized.shares > 1
    /\ Sized.shares = Trunc(RiskBasedShares)
    /\ RatLT(RiskBasedShares, MaxShares)

(* C13: for a confidence_score in [0,100] the Kelly size is never negative,    *)
(* it is exactly 0 whenever b*p - q <= 0 with b = 2 (confidence at or below    *)
(* one third), and the result reports that size                                *)
C13_KellyNeverNegative ==
    (/\ SizeDone
     /\ IsNumber(SignalEntry) /\ RatLT(Zero, SignalEntry)
     /\ IsNumber(SignalStop)
     /\ IsNumber(SignalConfidence)
     /\ RatLE(Zero, SignalConfidence) /\ RatLE(SignalConfidence, Num(100))) =>
        LET risk_per_share == RatAbs(RatSub(SignalEntry, SignalStop))
            kelly == KellyCriterion(risk_manager, SignalConfidence, risk_per_share,
                                    SignalEntry)
        IN /\ ~kelly.raised
           /\ RatLE(Zero, kelly.v)
           /\ (risk_per_share # Zero /\ RatLE(SignalConfidence, Rat(100, 3))) =>
                  kelly.v = Zero
           /\ (SizeReturned /\ ~Sized.error) => Sized.kelly_size = Round(kelly.v, 2)

(* a normal result at a confidence of exactly one third *)
C13_Witness ==
    /\ SizeReturned
    /\ ~Sized.error
    /\ SignalConfidence = Rat(100, 3)
    /\ Sized.kelly_size = Zero

(* C14 as stated: calculate_position_size never raises, and a result built by  *)
(* the except clause is the default with shares = 1, risk_per_share = 5% of    *)
(* entry_price and an error marker                                             *)
C14_NeverRaises ==
    SizeDone =>
        /\ ~out.raised
        /\ Sized.error =>
              /\ Sized.shares = 1
              /\ Sized.risk_per_share = RatDiv(RatMul(SignalEntry, Num(5)), Num(100))

(* C15: the heat adjustment is 0.1 at or above the ceiling of 6% of            *)
(* portfolio_value, 0.5 from 80% of the ceiling up to the ceiling, 1.0 below   *)
(* and 1.0 without a portfolio context; it is one of 0.1, 0.5, 1.0 and never   *)
(* increases with total_risk_exposure                                          *)
C15_HeatAdjustment ==
    SizeDone =>
        LET p == args.portfolio_data
            heat == PortfolioHeatAdjustment(risk_manager, p)
            exposure == Get(p.total_risk_exposure, Zero)
            ceiling == RatDiv(RatMul(PortfolioValue, Num(6)), Num(100))
            near == RatDiv(RatMul(ceiling, Num(80)), Num(100))
        IN /\ heat \in {Rat(1, 10), Rat(1, 2), Num(1)}
           /\ p.kind # "dict" => heat = Num(1)
           /\ (p.kind = "dict" /\ IsNumber(exposure)) =>
                 /\ heat = IF RatLE(ceiling, exposure) THEN Rat(1, 10)
                           ELSE IF RatLE(near, exposure) THEN Rat(1, 2)
                           ELSE Num(1)
                 /\ \A y \in Exposures :
                       (IsNumber(y) /\ RatLE(exposure, y)) =>
                           RatLE(PortfolioHeatAdjustment(risk_manager,
                                     [p EXCEPT !.total_risk_exposure = y]), heat)
           /\ (SizeReturned /\ ~Sized.error) => Sized.portfolio_heat_adjustment = heat

(* a normal result at exactly 80% of the ceiling *)
C15_Witness ==
    /\ SizeReturned
    /\ ~Sized.error
    /\ args.portfolio_data.kind = "dict"
    /\ args.portfolio_data.total_risk_exposure = Num(4800)
    /\ Sized.portfolio_heat_adjustment = Rat(1, 2)

-----------------------------------------------------------------------------
(* Properties of monte_carlo_simulation *)

Frames == {mc[c] : c \in DOMAIN mc}
Hits(path, level) == {i \in DOMAIN path : RatLE(path[i], level)}
Reaches(path, level) == {i \in DOMAIN path : RatLE(level, path[i])}
Gain(price, entry_price) == RatDiv(RatSub(price, entry_price), entry_price)

(* C16: a simulated path with any price <= stop_loss has the outcome           *)
(* (stop_loss - entry)/entry, even when an earlier price of the path was       *)
(* >= take_profit; otherwise a path with any price >= take_profit has          *)
(* (take_profit - entry)/entry; otherwise the outcome is                       *)
(* (final_price - entry)/entry                                                 *)
C16_StopLossBeforeTakeProfit ==
    \A f \in Frames : \A i \in DOMAIN f.outcomes :
        LET path == f.price_paths[i]
        IN f.outcomes[i] =
              IF Hits(path, f.stop_loss) # {} THEN Gain(f.stop_loss, f.entry_price)
              ELSE IF Reaches(path, f.take_profit) # {}
                   THEN Gain(f.take_profit, f.entry_price)
              ELSE Gain(path[Len(path)], f.entry_price)

(* a path that reached take_profit before it fell to stop_loss *)
C16_Witness ==
    \E f \in Frames : \E i \in DOMAIN f.outcomes :
        LET path == f.price_paths[i]
        IN /\ RatLT(f.stop_loss, f.entry_price)
           /\ RatLT(f.entry_price, f.take_profit)
           /\ \E j \in Reaches(path, f.take_profit) :
                 \E k \in Hits(path, f.stop_loss) : j < k
           /\ f.outcomes[i] = Gain(f.stop_loss, f.entry_price)

(* C17: two runs of monte_carlo_simulation with the same inputs, the generator *)
(* set to the same seed before each, return the same outcomes and the same     *)
(* result record                                                               *)
C17_SameSeedSameResult ==
    (pc = "mc" /\ Len(runs) = 2) =>
        /\ runs[1].seed = runs[2].seed
        /\ runs[1].signal_data = runs[2].signal_data
        /\ runs[1].num_simulations = runs[2].num_simulations
        /\ runs[1].time_horizon = runs[2].time_horizon
        /\ runs[1].outcomes = runs[2].outcomes
        /\ runs[1].v = runs[2].v

(* a repeated run whose two paths ended differently *)
C17_Witness ==
    /\ pc = "mc"
    /\ Len(runs) = 2
    /\ Len(runs[2].outcomes) >= 2
    /\ runs[2].outcomes[1] # runs[2].outcomes[2]
    /\ RatLT(Zero, runs[2].v.simulation_results.win_rate)

(* C18 as stated: under any interleaving of concurrent calls the result of     *)
(* every call equals the result of that call run alone from the same inputs    *)
(* and the same generator state                                                *)
C18_ConcurrentCallsIsolated ==
    \A i \in DOMAIN runs :
        runs[i].v = RunAlone(runs[i].signal_data, runs[i].num_simulations,
                             runs[i].time_horizon, runs[i].seed)

(* C20: every simulated price path has time_horizon + 1 prices, starts at      *)
(* entry_price and holds no price <= 0: every simulated price is at least the  *)
(* floor 0.01                                                                  *)
C20_PathShape ==
    \A f \in Frames :
        /\ \A i \in DOMAIN f.price_paths :
              LET path == f.price_paths[i]
              IN /\ Len(path) = f.time_horizon + 1
                 /\ path[1] = f.entry_price
                 /\ \A k \in DOMAIN path :
                       /\ RatLT(Zero, path[k])
                       /\ k > 1 => RatLE(Rat(1, 100), path[k])
        /\ Len(f.prices) <= f.time_horizon + 1
        /\ \A k \in DOMAIN f.prices : RatLT(Zero, f.prices[k])

(* a finished path in which the floor replaced a price that was not positive *)
C20_Witness ==
    \E f \in Frames : \E i \in DOMAIN f.price_paths :
        LET path == f.price_paths[i]
        IN /\ Len(path) = f.time_horizon + 1
           /\ \E k \in DOMAIN path : k > 1 /\ path[k] = Rat(1, 100)

-----------------------------------------------------------------------------
(* Properties of the result of monte_carlo_simulation, stated on the call of   *)
(* one caller that has returned                                                *)

McReturned == pc = "mc" /\ mc[1].status = "returned"
McFrame == mc[1]
McOut == out.v
McFailed == McOut.simulation_results.error
Percent(x) == Round(RatMul(x, Num(100)), 2)
InPercent(x) == RatLE(Zero, x) /\ RatLE(x, Num(100))

(* C21 as stated: whatever its input, monte_carlo_simulation returns a record   *)
(* with the statistics of simulation_results, the three outcome probabilities, *)
(* the percentiles p10, p25, p50, p75 and p90 and a recommendation, so that a   *)
(* consumer can read these fields of a failed simulation as well               *)
C21_NormalShapeOnFailure ==
    McReturned =>
        /\ {"expected_return", "win_rate", "max_gain", "max_loss"}
               \subseteq DOMAIN McOut.simulation_results
        /\ DOMAIN McOut.outcome_probabilities =
               {"probability_profit", "probability_loss", "probability_breakeven"}
        /\ DOMAIN McOut.percentiles = {"p10", "p25", "p50", "p75", "p90"}

(* C22: the win_rate of the backtest report of any batch, and the win_rate and *)
(* the three outcome probabilities of a successful simulation of at least one  *)
(* path, lie in [0, 100]; the win_rate of the simulation equals its            *)
(* probability_profit, and probability_profit + probability_loss <= 100        *)
C22_RatesWithinPercent ==
    /\ BtDone => InPercent(Report.win_rate)
    /\ (McReturned /\ ~McFailed /\ McFrame.num_simulations > 0) =>
          LET p == McOut.outcome_probabilities
          IN /\ InPercent(McOut.simulation_results.win_rate)
             /\ InPercent(p.probability_profit)
             /\ InPercent(p.probability_loss)
             /\ InPercent(p.probability_breakeven)
             /\ McOut.simulation_results.win_rate = p.probability_profit
             /\ RatLE(RatAdd(p.probability_profit, p.probability_loss), Num(100))

(* a simulation of two paths, one won and one lost *)
C22_Witness ==
    /\ McReturned
    /\ ~McFailed
    /\ McFrame.num_simulations = 2
    /\ McOut.outcome_probabilities.probability_profit = Num(50)
    /\ McOut.outcome_probabilities.probability_loss = Num(50)

Bracketed(f) ==
    /\ f.status # "error"
    /\ RatLT(f.stop_loss, f.entry_price)
    /\ RatLT(f.entry_price, f.take_profit)
WithinBracket(f) ==
    \A i \in DOMAIN f.outcomes :
        /\ RatLE(Gain(f.stop_loss, f.entry_price), f.outcomes[i])
        /\ RatLE(f.outcomes[i], Gain(f.take_profit, f.entry_price))

(* C26 as stated: with stop_loss < entry_price < take_profit every outcome lies *)
(* in [(stop_loss - entry)/entry, (take_profit - entry)/entry], and the         *)
(* reported max_loss is not below the stop-loss return in percent nor the       *)
(* reported max_gain above the take-profit return in percent                    *)
C26_OutcomesWithinBracket ==
    \A f \in Frames : Bracketed(f) =>
        /\ WithinBracket(f)
        /\ (McReturned /\ f.num_simulations > 0) =>
              /\ RatLE(RatMul(Gain(f.stop_loss, f.entry_price), Num(100)),
                       McOut.simulation_results.max_loss)
              /\ RatLE(McOut.simulation_results.max_gain,
                       RatMul(Gain(f.take_profit, f.entry_price), Num(100)))

(* C26, amended: with stop_loss < entry_price < take_profit every outcome lies  *)
(* in [(stop_loss - entry)/entry, (take_profit - entry)/entry], and the         *)
(* reported max_loss is not below the stop-loss return and the reported         *)
(* max_gain not above the take-profit return, each in percent rounded to two    *)
(* decimals as the report rounds them                                           *)
C26_OutcomesWithinRoundedBracket ==
    \A f \in Frames : Bracketed(f) =>
        /\ WithinBracket(f)
        /\ (McReturned /\ f.num_simulations > 0) =>
              /\ RatLE(Percent(Gain(f.stop_loss, f.entry_price)),
                       McOut.simulation_results.max_loss)
              /\ RatLE(McOut.simulation_results.max_gain,
                       Percent(Gain(f.take_profit, f.entry_price)))

(* a returned simulation with one path stopped out, one at its target and the  *)
(* levels not a whole percentage of the entry price                            *)
C26_Witness ==
    /\ McReturned
    /\ Bracketed(McFrame)
    /\ McFrame.entry_price = Num(30)
    /\ \E i, j \in DOMAIN McFrame.outcomes :
          /\ McFrame.outcomes[i] = Gain(McFrame.stop_loss, McFrame.entry_price)
          /\ McFrame.outcomes[j] = Gain(McFrame.take_profit, McFrame.entry_price)

(* C27: when stop_loss >= entry_price every outcome equals                     *)
(* (stop_loss - entry)/entry, whatever the draws, the confidence and the       *)
(* volatility: the first price of every path is the entry price                *)
C27_StopAtOrAboveEntry ==
    \A f \in Frames :
        (f.status # "error" /\ RatLE(f.entry_price, f.stop_loss)) =>
            \A i \in DOMAIN f.outcomes :
                f.outcomes[i] = Gain(f.stop_loss, f.entry_price)

(* a path that rose to take_profit and never came back to stop_loss after its  *)
(* first price, under a stop above the entry                                   *)
C27_Witness ==
    \E f \in Frames : \E i \in DOMAIN f.outcomes :
        LET path == f.price_paths[i]
        IN /\ RatLT(f.entry_price, f.stop_loss)
           /\ Len(path) > 1
           /\ \A k \in 2..Len(path) : RatLT(f.stop_loss, path[k])
           /\ f.outcomes[i] = Gain(f.stop_loss, f.entry_price)

-----------------------------------------------------------------------------
(* Properties of check_drawdown, stated on the call that has returned *)

DdDone == pc = "risk_done" /\ out.kind = "drawdown"
DdReport == out.v
DdReported == DdDone /\ ~DdReport.error
Values == args.portfolio_values

(* the running peak and the drawdown ratio at point i, and the deepest ratio *)
PeakAt(i) == CHOOSE m \in {Values[j] : j \in 1..i} : \A j \in 1..i : Values[j] <= m
RatioAt(i) == Rat(Values[i] - PeakAt(i), PeakAt(i))
Ratios == {RatioAt(i) : i \in 1..Len(Values)}
DeepestRatio == CHOOSE r \in Ratios : \A q \in Ratios : RatLE(r, q)

(* the points in drawdown, and the maximal runs of consecutive such points *)
Negative == {i \in 1..Len(Values) : RatLT(RatioAt(i), Zero)}
RunsOf(points) ==
    {r \in (1..Len(Values)) \X (1..Len(Values)) :
        /\ r[1] <= r[2]
        /\ \A k \in r[1]..r[2] : k \in points
        /\ (r[1] - 1) \notin points
        /\ (r[2] + 1) \notin points}
Runs == UNION {RunsOf(points) : points \in {Negative}}
RunLength(r) == r[2] - r[1] + 1
LongestRun ==
    IF Runs = {} THEN 0
    ELSE CHOOSE l \in {RunLength(r) : r \in Runs} : \A r \in Runs : RunLength(r) <= l
MeanRun == IF Runs = {} THEN Zero ELSE Rat(Cardinality(Negative), Cardinality(Runs))
Episodes == DrawdownPeriods(Drawdown(Values), 1, FALSE, 0, <<>>)

(* the episodes collected are the runs, in their order, each with its length *)
EpisodesAreRuns ==
    \E found \in {Runs}, episodes \in {Episodes} :
        /\ Len(episodes) = Cardinality(found)
        /\ \A r \in found :
              episodes[Cardinality({q \in found : q[1] <= r[1]})] = RunLength(r)

(* C23 as stated: for a series of at least 2 points max_drawdown is the         *)
(* smallest (value - running peak)/running peak and current_drawdown that       *)
(* ratio at the last point, both times 100                                      *)
C23_DrawdownExact ==
    DdReported =>
        /\ DdReport.max_drawdown = RatMul(DeepestRatio, Num(100))
        /\ DdReport.current_drawdown = RatMul(RatioAt(Len(Values)), Num(100))

(* C23, amended: for a series of at least 2 positive values max_drawdown is    *)
(* the smallest (value - running peak)/running peak and current_drawdown that  *)
(* ratio at the last point, both times 100 and rounded to two decimals; for    *)
(* [100, 90, 80, 95] they are -20 and -5                                       *)
C23_DrawdownRounded ==
    /\ DdDone => (DdReport.error <=> Len(Values) < 2)
    /\ DdReported =>
          /\ DdReport.max_drawdown = Percent(DeepestRatio)
          /\ DdReport.current_drawdown = Percent(RatioAt(Len(Values)))
    /\ (DdDone /\ Values = <<100, 90, 80, 95>>) =>
          /\ DdReport.max_drawdown = Num(-20)
          /\ DdReport.current_drawdown = Num(-5)

(* a series whose deepest drawdown is not a whole number of hundredths of a    *)
(* percent and not at its last point                                           *)
C23_Witness ==
    /\ DdReported
    /\ Values = <<90, 80, 95, 90>>
    /\ DdReport.max_drawdown = Rat(-1111, 100)
    /\ DdReport.current_drawdown = Rat(-526, 100)

StrictlyIncreasing == \A i \in 1..(Len(Values) - 1) : Values[i] < Values[i + 1]

(* C24: on a strictly increasing series of at least 2 points check_drawdown    *)
(* reports max_drawdown = 0, finds no drawdown episode, so that the average    *)
(* and the maximum drawdown duration are 0, and reports recovery_factor = 0    *)
C24_IncreasingSeries ==
    (DdReported /\ StrictlyIncreasing) =>
        /\ DdReport.max_drawdown = Zero
        /\ DdReport.current_drawdown = Zero
        /\ Episodes = <<>>
        /\ DdReport.avg_drawdown_duration = Zero
        /\ DdReport.max_drawdown_duration = 0
        /\ DdReport.recovery_factor = Zero

C24_Witness ==
    /\ DdReported
    /\ StrictlyIncreasing
    /\ Len(Values) = 4
    /\ DdReport.total_return = Num(25)

(* C25 as stated: the episodes are the maximal runs of consecutive points with *)
(* drawdown < 0, a run open at the end included, each with the number of its   *)
(* points; their lengths sum to the number of such points;                     *)
(* max_drawdown_duration is the longest run and avg_drawdown_duration the mean *)
(* of the run lengths                                                          *)
C25_EpisodesExactMean ==
    DdReported =>
        /\ EpisodesAreRuns
        /\ DdReport.max_drawdown_duration = LongestRun
        /\ DdReport.avg_drawdown_duration = MeanRun

(* C25, amended: the episodes are the maximal runs of consecutive points with  *)
(* drawdown < 0, a run open at the end included, each with the number of its   *)
(* points; max_drawdown_duration is the longest run and avg_drawdown_duration  *)
(* the mean of the run lengths rounded to one decimal                          *)
C25_EpisodesRoundedMean ==
    DdReported =>
        /\ EpisodesAreRuns
        /\ DdReport.max_drawdown_duration = LongestRun
        /\ DdReport.avg_drawdown_duration = Round(MeanRun, 1)

(* three episodes of 1, 1 and 2 points, the last still open at the end *)
C25_Witness ==
    /\ DdReported
    /\ Values = <<100, 90, 100, 90, 100, 90, 90>>
    /\ Episodes = <<1, 1, 2>>
    /\ DdReport.max_drawdown_duration = 2
    /\ DdReport.avg_drawdown_duration = Rat(13, 10)

(* C29 as stated: max_drawdown <= current_drawdown <= 0,                       *)
(* max_drawdown_duration >= avg_drawdown_duration >= 0, and max_drawdown < 0   *)
(* exactly when there is at least one drawdown episode                         *)
C29_DrawdownOrder ==
    DdReported =>
        /\ RatLE(DdReport.max_drawdown, DdReport.current_drawdown)
        /\ RatLE(DdReport.current_drawdown, Zero)
        /\ RatLE(DdReport.avg_drawdown_duration, Num(DdReport.max_drawdown_duration))
        /\ RatLE(Zero, DdReport.avg_drawdown_duration)
        /\ RatLT(DdReport.max_drawdown, Zero) <=> Episodes # <<>>

(* C29, amended: max_drawdown <= current_drawdown <= 0,                        *)
(* max_drawdown_duration >= avg_drawdown_duration >= 0; max_drawdown < 0 only  *)
(* when there is a drawdown episode, and whenever there is one whose depth is  *)
(* at least 0.01%: a shallower episode may be reported with max_drawdown = 0   *)
C29_DrawdownOrderRounded ==
    DdReported =>
        /\ RatLE(DdReport.max_drawdown, DdReport.current_drawdown)
        /\ RatLE(DdReport.current_drawdown, Zero)
        /\ RatLE(DdReport.avg_drawdown_duration, Num(DdReport.max_drawdown_duration))
        /\ RatLE(Zero, DdReport.avg_drawdown_duration)
        /\ RatLT(DdReport.max_drawdown, Zero) => Episodes # <<>>
        /\ (Episodes # <<>> /\ RatLE(DeepestRatio, Rat(-1, 10000))) =>
              RatLT(DdReport.max_drawdown, Zero)

(* an episode of 0.001% that is reported with max_drawdown = 0 *)
C29_Witness ==
    /\ DdReported
    /\ Values = <<100000, 99999, 100000>>
    /\ Episodes = <<1>>
    /\ DdReport.max_drawdown = Zero
    /\ DdReport.max_drawdown_duration = 1

-----------------------------------------------------------------------------
(* Properties of the two instances *)

(* C19: after any sequence of calls of the public operations, successful or    *)
(* failing, the attributes of the AdvancedRiskManager instance                 *)
(* (portfolio_value, max_portfolio_risk, positions, correlation_matrix,        *)
(* sector_exposure) and of the Backtester instance (start_date, end_date)      *)
(* equal their values at construction                                          *)
C19_EngineStateUnchanged ==
    /\ risk_manager = AdvancedRiskManager
    /\ backtester = Backtester

(* a call of calculate_position_size has just ended with an exception *)
C19_Witness ==
    /\ pc = "size_done"
    /\ out.raised
    /\ risk_manager.positions = <<>>
    /\ risk_manager.portfolio_value = Num(100000)

-----------------------------------------------------------------------------
(* AdvancedBrokerInterface (execution/broker.py): the order registry and the   *)
(* positions of the global instance broker_interface. Timestamps of reports    *)
(* and orders (created_at, cancelled_at, last_updated) are left out.           *)

(* the instance the module constructs at import, lines 14-18 *)
AdvancedBrokerInterface == [orders |-> <<>>, positions |-> <<>>]

(* what time.time() in milliseconds and random.randint(1000, 9999) may give to *)
(* _generate_order_id: the clock is the wall clock, which may repeat a value   *)
Timestamps == 1..MaxClock
Suffixes == {1000, 9999}
GenerateOrderId(timestamp, random_suffix) == <<"ORD", timestamp, random_suffix>>
OrderIds == {GenerateOrderId(t, s) : t \in Timestamps, s \in Suffixes}
BracketId(parent_order_id, leg) == Append(parent_order_id, leg)
BracketIds == {BracketId(p, leg) : p \in OrderIds, leg \in {"SL", "TP"}}

(* _validate_order: "ok" or the reason of the rejection, named by its subject *)
ValidateOrder(asset, direction, quantity, price) ==
    IF asset \in {"UNKNOWN", ""} THEN "asset"
    ELSE IF direction \notin {"long", "short"} THEN "direction"
    ELSE IF quantity <= 0 THEN "quantity"
    ELSE IF ~RatLT(Zero, price) THEN "price"
    ELSE IF RatLT(Num(50000), RatMul(Num(quantity), price)) THEN "position size"
    ELSE "ok"

(* _simulate_execution: the price after slippage, rounded to cents *)
ExecutedPrice(direction, requested_price, actual_slippage) ==
    Round(RatMul(requested_price,
                 IF direction = "long" THEN RatAdd(Num(1), actual_slippage)
                 ELSE RatSub(Num(1), actual_slippage)), 2)

(* the bracket orders of _place_bracket_orders, lines 212-229 *)
BracketOrders(direction, quantity, stop_loss, take_profit, parent_order_id) ==
    [stop_loss_order |->
        [order_id |-> BracketId(parent_order_id, "SL"),
         type |-> IF direction = "long" THEN "stop_loss_sell" ELSE "stop_loss_buy",
         quantity |-> quantity, trigger_price |-> stop_loss, status |-> "pending"],
     take_profit_order |->
        [order_id |-> BracketId(parent_order_id, "TP"),
         type |-> IF direction = "long" THEN "limit_sell" ELSE "limit_buy",
         quantity |-> quantity, limit_price |-> take_profit, status |-> "pending"]]

(* self.orders[order_id] = order, lines 232-233 *)
Store(orders, order) ==
    [id \in DOMAIN orders \cup {order.order_id} |->
        IF id = order.order_id THEN order ELSE orders[id]]

NoPosition == [long_quantity |-> 0, short_quantity |-> 0,
               avg_long_price |-> Zero, avg_short_price |-> Zero]

(* _update_positions *)
UpdatePositions(positions, asset, direction, quantity, price) ==
    LET position == IF asset \in DOMAIN positions THEN positions[asset] ELSE NoPosition
        updated ==
            IF direction = "long"
            THEN LET total_value ==
                         RatAdd(RatMul(Num(position.long_quantity), position.avg_long_price),
                                RatMul(Num(quantity), price))
                     long_quantity == position.long_quantity + quantity
                 IN [position EXCEPT
                        !.long_quantity = long_quantity,
                        !.avg_long_price = IF long_quantity > 0
                                           THEN RatDivInt(total_value, long_quantity)
                                           ELSE Zero]
            ELSE LET total_value ==
                         RatAdd(RatMul(Num(position.short_quantity), position.avg_short_price),
                                RatMul(Num(quantity), price))
                     short_quantity == position.short_quantity + quantity
                 IN [position EXCEPT
                        !.short_quantity = short_quantity,
                        !.avg_short_price = IF short_quantity > 0
                                            THEN RatDivInt(total_value, short_quantity)
                                            ELSE Zero]
    IN [a \in DOMAIN positions \cup {asset} |->
           IF a = asset THEN updated ELSE positions[a]]

(* execute_trade_order: the broker after the call and the report; env is what  *)
(* the clock, the random generator and the simulated market give to the call   *)
ExecuteTradeOrder(self, signal, position_sizing, env) ==
    LET entry_price == signal.entry_price
        stop_loss == signal.stop_loss
        take_profit == signal.take_profit
        quantity == IF position_sizing.kind = "dict" THEN position_sizing.shares ELSE 100
        \* entry_price * 0.95 (line 29) on None
        raises == entry_price = NoneVal
        reason == ValidateOrder(signal.asset, signal.direction, quantity, entry_price)
        order_id == GenerateOrderId(env.timestamp, env.random_suffix)
        executed_price == ExecutedPrice(signal.direction, entry_price, env.actual_slippage)
        bracket_orders == BracketOrders(signal.direction, quantity, stop_loss,
                                        take_profit, order_id)
    IN IF raises
       THEN [self |-> self, report |-> [status |-> "error"]]
       ELSE IF reason # "ok"
       THEN [self |-> self, report |-> [status |-> "rejected", error |-> reason]]
       ELSE IF ~env.executed
       THEN [self |-> self, report |-> [status |-> "failed", order_id |-> order_id]]
       ELSE [self |-> [orders |-> Store(Store(self.orders, bracket_orders.stop_loss_order),
                                        bracket_orders.take_profit_order),
                       positions |-> UpdatePositions(self.positions, signal.asset,
                                                     signal.direction, quantity,
                                                     executed_price)],
             report |-> [status |-> "executed", order_id |-> order_id,
                         asset |-> signal.asset, direction |-> signal.direction,
                         quantity |-> quantity, requested_price |-> entry_price,
                         executed_price |-> executed_price,
                         total_value |-> RatMul(Num(quantity), executed_price),
                         bracket_orders |-> bracket_orders]]

(* cancel_order *)
CancelOrder(self, order_id) ==
    IF order_id \in DOMAIN self.orders
    THEN IF self.orders[order_id].status = "pending"
         THEN [self |-> [self EXCEPT !.orders[order_id].status = "cancelled"],
               report |-> [status |-> "cancelled", order_id |-> order_id]]
         ELSE [self |-> self,
               report |-> [status |-> "error", order_id |-> order_id,
                           error |-> "Cannot cancel order"]]
    ELSE [self |-> self,
          report |-> [status |-> "error", order_id |-> order_id,
                      error |-> "Order not found"]]

(* get_order_status *)
GetOrderStatus(self, order_id) ==
    IF order_id \in DOMAIN self.orders
    THEN [order_id |-> order_id, status |-> "found",
          order_details |-> self.orders[order_id]]
    ELSE [order_id |-> order_id, status |-> "not_found"]

(* get_positions *)
GetPositions(self) ==
    [positions |-> self.positions, total_positions |-> Cardinality(DOMAIN self.positions)]

(* the signals and the sizing records handed to execute_trade_order *)
BrokerSignals ==
    [asset : {"AAPL", "UNKNOWN"}, direction : {"long", "short", "neutral"},
     entry_price : {NoneVal, Num(0), Num(100)},
     stop_loss : {Num(95)}, take_profit : {Num(105)}]
OrderSizings ==
    {[kind |-> "None", shares |-> 0]}
    \cup {[kind |-> "dict", shares |-> n] : n \in {0, 100, 1000}}
Environments ==
    [timestamp : Timestamps, random_suffix : Suffixes,
     actual_slippage : {Zero, Rat(4, 1000)}, executed : BOOLEAN]

(* the orders executed so far: every executed order of the model trades 100    *)
(* shares                                                                      *)
Fills(self) ==
    IF "AAPL" \in DOMAIN self.positions
    THEN (self.positions["AAPL"].long_quantity
          + self.positions["AAPL"].short_quantity) \div 100
    ELSE 0

(* a caller invokes execute_trade_order *)
ExecuteTradeOrderCall ==
    /\ pc = "idle"
    /\ Fills(broker_interface) < MaxOrders
    /\ \E signal \in BrokerSignals, position_sizing \in OrderSizings,
          env \in Environments :
          LET r == ExecuteTradeOrder(broker_interface, signal, position_sizing, env)
          IN /\ args' = [op |-> "execute_trade_order", signal |-> signal,
                         position_sizing |-> position_sizing]
             /\ broker_interface' = r.self
             /\ out' = [kind |-> "broker", v |-> r.report]
    /\ pc' = "broker_done"
    /\ UNCHANGED <<sim, batch, bt, risk_manager, backtester, riskVars>>

(* a caller invokes cancel_order *)
CancelOrderCall ==
    /\ pc = "idle"
    /\ \E order_id \in BracketIds \cup OrderIds :
          LET r == CancelOrder(broker_interface, order_id)
          IN /\ args' = [op |-> "cancel_order", order_id |-> order_id]
             /\ broker_interface' = r.self
             /\ out' = [kind |-> "broker", v |-> r.report]
    /\ pc' = "broker_done"
    /\ UNCHANGED <<sim, batch, bt, risk_manager, backtester, riskVars>>

(* a caller invokes get_order_status *)
GetOrderStatusCall ==
    /\ pc = "idle"
    /\ \E order_id \in BracketIds \cup OrderIds :
          /\ args' = [op |-> "get_order_status", order_id |-> order_id]
          /\ out' = [kind |-> "broker", v |-> GetOrderStatus(broker_interface, order_id)]
    /\ pc' = "broker_done"
    /\ UNCHANGED <<sim, batch, bt, objects, riskVars>>

(* a caller invokes get_positions *)
GetPositionsCall ==
    /\ pc = "idle"
    /\ args' = [op |-> "get_positions"]
    /\ out' = [kind |-> "broker", v |-> GetPositions(broker_interface)]
    /\ pc' = "broker_done"
    /\ UNCHANGED <<sim, batch, bt, objects, riskVars>>

(* the caller takes the report *)
BrokerFinish ==
    /\ pc = "broker_done"
    /\ pc' = "idle"
    /\ args' = NoArgs /\ out' = NoOut
    /\ UNCHANGED <<sim, batch, bt, objects, riskVars>>

-----------------------------------------------------------------------------
(* Properties of the order registry of the broker *)

Orders == broker_interface.orders
Cancelling(order_id) ==
    /\ pc = "idle" /\ pc' = "broker_done"
    /\ args'.op = "cancel_order"
    /\ args'.order_id = order_id

(* C30 as stated: in every step of any sequence of execute_trade_order,        *)
(* cancel_order and get_order_status calls the status of an order of the       *)
(* registry changes only in a cancel_order call for that order and only from   *)
(* pending to cancelled, so that a cancelled order never becomes pending       *)
(* again; a cancel_order call for an unknown or a cancelled order returns      *)
(* status "error" and leaves the registry unchanged                            *)
C30_StatusOnlyByCancel ==
    [][/\ \A id \in DOMAIN Orders :
             /\ id \in DOMAIN Orders'
             /\ Orders'[id].status # Orders[id].status =>
                   /\ Cancelling(id)
                   /\ Orders[id].status = "pending"
                   /\ Orders'[id].status = "cancelled"
       /\ \A id \in BracketIds \cup OrderIds :
             (/\ Cancelling(id)
              /\ id \in DOMAIN Orders => Orders[id].status = "cancelled") =>
                 /\ out'.v.status = "error"
                 /\ Orders' = Orders]_vars

-----------------------------------------------------------------------------
Init ==
    /\ pc = "idle"
    /\ args = NoArgs
    /\ sim = NoSim
    /\ out = NoOut
    /\ batch = <<>>
    /\ bt = NoBt
    /\ risk_manager = AdvancedRiskManager
    /\ backtester = Backtester
    /\ mc = NoMc
    /\ rng = NoneStr
    /\ runs = <<>>
    /\ broker_interface = AdvancedBrokerInterface

(* direct calls of simulate_trade *)
NextSim ==
    \/ SimulateTradeCall
    \/ SimBar
    \/ SimReturn
    \/ SimFinish

SpecSim == Init /\ [][NextSim]_vars

(* calls of backtest_signals *)
NextBt ==
    \/ BacktestCall
    \/ BacktestSignal
    \/ BacktestReturn
    \/ BacktestFinish

SpecBt == Init /\ [][NextBt]_vars

(* calls of calculate_position_size *)
NextSize ==
    \/ PositionSizeCall
    \/ PositionSizeFinish

SpecSize == Init /\ [][NextSize]_vars

(* calls of monte_carlo_simulation by one caller at a time *)
NextMc ==
    \/ McCall
    \/ McDraw(1)
    \/ McOutcome(1)
    \/ McReturn(1)
    \/ McRepeat
    \/ McFinish

SpecMc == Init /\ [][NextMc]_vars

(* calls of monte_carlo_simulation by callers that share the engine *)
NextShared ==
    \/ \E c \in Callers : McCallShared(c) \/ McDraw(c) \/ McOutcome(c) \/ McReturn(c)
    \/ McFinish

SpecShared == Init /\ [][NextShared]_vars

(* calls of the other operations of AdvancedRiskManager *)
NextRisk ==
    \/ DynamicStopLossCall
    \/ CheckDrawdownCall
    \/ PortfolioCorrelationCall
    \/ SimulateTradeOutcomesCall
    \/ RiskFinish

SpecRisk == Init /\ [][NextRisk]_vars

(* any sequence of calls by one caller at a time *)
NextCalls == NextSim \/ NextBt \/ NextSize \/ NextMc \/ NextRisk

SpecCalls == Init /\ [][NextCalls]_vars

(* calls of the broker *)
NextBroker ==
    \/ ExecuteTradeOrderCall
    \/ CancelOrderCall
    \/ GetOrderStatusCall
    \/ GetPositionsCall
    \/ BrokerFinish

SpecBroker == Init /\ [][NextBroker]_vars

(* any sequence of calls *)
Next == NextCalls \/ NextShared \/ NextBroker

Spec == Init /\ [][Next]_vars

====
